---- MODULE Spec2Model ----
(***************************************************************************)
(* A model of the Persistence merge engine of react-class-model:           *)
(* toSerializable / deserializeCopy / mergeArray / keysMatch / equals      *)
(* (src/Persistence/Serialization.ts), Field.deserialize (Field.ts) and    *)
(* the registry (Persistence.ts), over an explicit JavaScript heap.        *)
(***************************************************************************)
EXTENDS Integers, Sequences, FiniteSets, TLC

(***************************************************************************)
(* Bounds of the explored inputs.                                          *)
(***************************************************************************)
\* longest source list, and longest destination list of a whole merge
MaxLen == 2
\* longest destination list of a mergeArray taken step by step
MaxDest == 3
\* identity key values are 1..MaxId
MaxId == 2

(***************************************************************************)
(* JavaScript values.  Objects (class instances, plain objects, arrays)    *)
(* live in the heap and are denoted by references, so that reference       *)
(* identity (===) is equality of references.                               *)
(***************************************************************************)
Undefined == [k |-> "undefined", v |-> 0]
Null == [k |-> "null", v |-> 0]
Num(n) == [k |-> "number", v |-> n]
Str(s) == [k |-> "string", v |-> s]
Ref(id) == [k |-> "object", v |-> id]
Function(f) == [k |-> "function", v |-> f]

\* typeof x
TypeOf(x) == IF x.k = "null" THEN "object" ELSE x.k

\* x == null (null or undefined)
IsNullish(x) == x.k \in {"undefined", "null"}

\* truthiness of x in a condition
Truthy(x) ==
    CASE x.k \in {"undefined", "null"} -> FALSE
      [] x.k = "number" -> x.v # 0
      [] x.k = "string" -> x.v # ""
      [] OTHER -> TRUE

\* a heap object: its constructor, its own properties, its elements (arrays)
HeapObject(t, p, i) == [type |-> t, props |-> p, items |-> i]

\* Array.isArray(x)
IsArray(h, x) == x.k = "object" /\ h[x.v].type = "Array"

\* x.hasOwnProperty(name) for an object x
HasOwnProperty(h, x, name) == x.k = "object" /\ name \in DOMAIN h[x.v].props

\* x[name] for a non-nullish x (nullish x throws a TypeError at the call site)
GetProp(h, x, name) ==
    IF HasOwnProperty(h, x, name) THEN h[x.v].props[name] ELSE Undefined

\* arr[i], i counted from 0; reading past the end gives undefined
GetIndex(h, arr, i) ==
    IF IsArray(h, arr) /\ i < Len(h[arr.v].items) THEN h[arr.v].items[i + 1] ELSE Undefined

\* arr.length
ArrayLength(h, arr) == Len(h[arr.v].items)

\* obj[name] = v
SetProp(h, id, name, v) == [h EXCEPT ![id].props = (name :> v) @@ @]

\* replace the elements of an array
SetItems(h, id, items) == [h EXCEPT ![id].items = items]

\* arr[i] = v, i counted from 0 and i <= arr.length
SetIndex(h, id, i, v) ==
    IF i < Len(h[id].items)
    THEN [h EXCEPT ![id].items[i + 1] = v]
    ELSE [h EXCEPT ![id].items = Append(@, v)]

\* arr.splice(i, 1), i counted from 0
Splice(s, i) == SubSeq(s, 1, i) \o SubSeq(s, i + 2, Len(s))

(***************************************************************************)
(* The registry: the Persistence object of each type, as the decorators    *)
(* of TestClasses.ts build it, and of Doc, a type with a copy field built   *)
(* with the same prop() calls.                                             *)
(***************************************************************************)
NoCtor == "none"

\* the ctor { value: Variable } of a field that holds a Map<string, Variable>
VariableMap == "{ value: Variable }"

\* new Field(ctor, transient, copy, get, set) registered under name; the
\* accessors read and write the attribute prop
Field(name, prop, ctor, transient, copy) ==
    [name |-> name, prop |-> prop, ctor |-> ctor, transient |-> transient, copy |-> copy]

Types ==
    {"Point", "Line", "NumberList", "PointList", "Player", "Team", "Doc", "Variable",
     "VariableSet", "Session"}

Persistence ==
    [t \in Types |->
        CASE t = "Point" ->
               [fields |-> <<Field("x", "x", NoCtor, FALSE, FALSE),
                             Field("y", "y", NoCtor, FALSE, FALSE)>>,
                keys |-> <<>>]
          [] t = "Line" ->
               [fields |-> <<Field("start", "start", "Point", FALSE, FALSE),
                             Field("end", "end", "Point", FALSE, FALSE)>>,
                keys |-> <<>>]
          [] t = "NumberList" ->
               [fields |-> <<Field("values", "values", NoCtor, FALSE, FALSE)>>,
                keys |-> <<>>]
          [] t = "PointList" ->
               [fields |-> <<Field("values", "values", "Point", FALSE, FALSE)>>,
                keys |-> <<>>]
          [] t = "Player" ->
               [fields |-> <<Field("id", "id", NoCtor, FALSE, FALSE),
                             Field("name", "name", NoCtor, FALSE, FALSE)>>,
                keys |-> <<"id">>]
          [] t = "Team" ->
               [fields |-> <<Field("members", "members", "Player", FALSE, FALSE)>>,
                keys |-> <<>>]
          [] t = "Doc" ->
               [fields |-> <<Field("title", "title", NoCtor, FALSE, FALSE),
                             Field("raw", "raw", NoCtor, FALSE, TRUE)>>,
                keys |-> <<>>]
          [] t = "Variable" ->
               [fields |-> <<Field("type", "type", NoCtor, FALSE, FALSE),
                             Field("value", "value", NoCtor, FALSE, FALSE)>>,
                keys |-> <<>>]
          [] t = "VariableSet" ->
               [fields |-> <<Field("data", "data", VariableMap, FALSE, FALSE)>>,
                keys |-> <<>>]
          \* @prop('login') user; @prop({ transient: true }) token; @prop() tags
          [] t = "Session" ->
               [fields |-> <<Field("login", "user", NoCtor, FALSE, FALSE),
                             Field("token", "token", NoCtor, TRUE, FALSE),
                             Field("tags", "tags", NoCtor, FALSE, FALSE)>>,
                keys |-> <<>>]]

\* the classes set up with setupSerialization: Test has a serializer and a
\* deserializer, InPlaceTest an in-place deserializer as well
ConverterTypes == {"Test", "InPlaceTest"}

\* persistence.deserialize and persistence.deserializeInto are set
HasDeserialize(ctor) == ctor \in ConverterTypes
HasDeserializeInto(ctor) == ctor = "InPlaceTest"

\* getPersistence(ctor): the Persistence of a constructor, if it has one
HasPersistence(ctor) == ctor \in Types \cup ConverterTypes

\* persistence.keys of a constructor that has a Persistence (a class set up
\* with setupSerialization has no keys)
KeysOf(ctor) == IF ctor \in Types THEN Persistence[ctor].keys ELSE <<>>

\* persistence.fields.get(name)
FieldsNamed(p, name) == {n \in 1..Len(Persistence[p].fields) : Persistence[p].fields[n].name = name}

\* new ctor(): the own properties the constructor assigns
NewInstance(t) ==
    CASE t = "Point" -> HeapObject(t, ("x" :> Undefined) @@ ("y" :> Undefined) @@ ("z" :> Undefined), <<>>)
      [] t = "Player" -> HeapObject(t, ("id" :> Undefined) @@ ("name" :> Undefined), <<>>)
      [] OTHER -> HeapObject(t, <<>>, <<>>)

(***************************************************************************)
(* Plain-data trees (what JSON text denotes) and their allocation.         *)
(***************************************************************************)
\* an instance built by the caller: new type(), then the given attributes
New(t, f) == [k |-> "new", v |-> [type |-> t, props |-> f]]
ListOf(s) == [k |-> "list", v |-> s]
MapOf(f) == [k |-> "map", v |-> f]
EmptyMap == MapOf(<<>>)

\* an allocation: the heap it leaves and the value it built
Allocated(h, v) == [heap |-> h, val |-> v]

RECURSIVE AllocTree(_, _)
RECURSIVE AllocList(_, _, _, _)
RECURSIVE AllocMap(_, _, _, _, _)

\* element n is allocated as a; go on with the rest of the list literal
AllocListNext(s, n, acc, a) == AllocList(a.heap, s, n + 1, Append(acc, a.val))

\* the elements of a list literal, left to right, then the array
AllocList(h, s, n, acc) ==
    IF n > Len(s) THEN Allocated(Append(h, HeapObject("Array", <<>>, acc)), Ref(Len(h) + 1))
    ELSE AllocListNext(s, n, acc, AllocTree(h, s[n]))

\* member key is allocated as a; go on with the rest of the object literal
AllocMapNext(t, f, todo, acc, key, a) ==
    AllocMap(a.heap, t, f, todo \ {key}, (key :> a.val) @@ acc)

\* the members of an object literal, then the object
AllocMap(h, t, f, todo, acc) ==
    IF todo = {} THEN Allocated(Append(h, HeapObject(t, acc, <<>>)), Ref(Len(h) + 1))
    ELSE AllocMapNext(t, f, todo, acc, CHOOSE x \in todo : TRUE,
                      AllocTree(h, f[CHOOSE x \in todo : TRUE]))

\* JSON.parse / an object literal: builds fresh objects and arrays
AllocTree(h, t) ==
    CASE t.k = "list" -> AllocList(h, t.v, 1, <<>>)
      [] t.k \in {"map", "new"} ->
            AllocMap(h,
                     IF t.k = "map" THEN "Object" ELSE t.v.type,
                     IF t.k = "map" THEN t.v ELSE t.v.props,
                     DOMAIN (IF t.k = "map" THEN t.v ELSE t.v.props),
                     IF t.k = "map" THEN <<>> ELSE NewInstance(t.v.type).props)
      [] OTHER -> Allocated(h, t)

(***************************************************************************)
(* Results of the operations: the heap they leave, the exception they      *)
(* threw (NoErr if none), the boolean they return and the value they       *)
(* return.                                                                 *)
(***************************************************************************)
NoErr == ""
TypeError == "TypeError"
PersistenceRequired == "no persistence defined"

R(h, e, c, v) == [heap |-> h, err |-> e, changed |-> c, val |-> v]

\* the result r with the boolean c / the value v in place of its own
WithChanged(r, c) == [r EXCEPT !.changed = c]
WithVal(r, v) == [r EXCEPT !.val = v]

\* a comparison that finds every pair of values different
AlwaysNotEqual(a, b) == TRUE

\* a !== b: scalars by value, objects by reference
StrictNotEqual(a, b) == a # b

(***************************************************************************)
(* equals (Serialization.ts): no registered type has an equals method and  *)
(* no value is a Date, so the comparison is lodash isEqual: scalars by     *)
(* value, objects and arrays by constructor, own properties and elements.  *)
(***************************************************************************)
RECURSIVE Deep(_, _)
Deep(h, x) ==
    IF x.k # "object" THEN x
    ELSE [k |-> "object",
          v |-> [type |-> h[x.v].type,
                 props |-> [n \in DOMAIN h[x.v].props |-> Deep(h, h[x.v].props[n])],
                 items |-> [n \in DOMAIN h[x.v].items |-> Deep(h, h[x.v].items[n])]]]

IsEqual(h, x, y) == Deep(h, x) = Deep(h, y)

Equals(h, x, y) == IsEqual(h, x, y)

\* field.get(instance)
FieldGet(h, field, instance) == GetProp(h, instance, field.prop)

(***************************************************************************)
(* keysMatch(persistence, obj, props)                                      *)
(***************************************************************************)
\* the outcome of a match: the exception thrown, if any, and the boolean
Matched(e, b) == [err |-> e, val |-> b]

\* persistence.fields.get(key), for a key that names a field
FieldNamed(p, key) == Persistence[p].fields[CHOOSE n \in FieldsNamed(p, key) : TRUE]

RECURSIVE KeysMatchFrom(_, _, _, _, _)
KeysMatchFrom(h, p, obj, props, i) ==
    IF i > Len(Persistence[p].keys) THEN Matched(NoErr, TRUE)
    ELSE IF FieldsNamed(p, Persistence[p].keys[i]) = {} \/ IsNullish(props)
    THEN Matched(TypeError, FALSE)
    ELSE IF ~Equals(h, FieldGet(h, FieldNamed(p, Persistence[p].keys[i]), obj),
                    GetProp(h, props, Persistence[p].keys[i]))
    THEN Matched(NoErr, FALSE)
    ELSE KeysMatchFrom(h, p, obj, props, i + 1)

KeysMatch(h, p, obj, props) ==
    IF TypeOf(props) = "object" THEN KeysMatchFrom(h, p, obj, props, 1)
    ELSE IF Len(Persistence[p].keys) = 0 \/ FieldsNamed(p, Persistence[p].keys[1]) = {}
    THEN Matched(TypeError, FALSE)
    ELSE Matched(NoErr, Equals(h, FieldGet(h, FieldNamed(p, Persistence[p].keys[1]), obj), props))

\* item && keysMatch(persistence, item, props)
ItemMatches(h, p, item, props) ==
    IF Truthy(item) THEN KeysMatch(h, p, item, props) ELSE Matched(NoErr, FALSE)

(***************************************************************************)
(* mergeArray helpers: the padding loop, the lookahead scan, the swap and  *)
(* the truncation loop.                                                    *)
(***************************************************************************)
\* a padding loop that sets changed whether it pushes or not
PadChanged(h, dest, source) ==
    R(SetItems(h, dest.v,
               h[dest.v].items \o
                   [x \in 1..(ArrayLength(h, source) - ArrayLength(h, dest)) |-> Null]),
      NoErr, TRUE, Undefined)

\* while (source.length > dest.length) { dest.push(null); changed = true; }
Pad(h, dest, source) ==
    IF ArrayLength(h, source) > ArrayLength(h, dest)
    THEN R(SetItems(h, dest.v,
                    h[dest.v].items \o
                        [x \in 1..(ArrayLength(h, source) - ArrayLength(h, dest)) |-> Null]),
           NoErr, TRUE, Undefined)
    ELSE R(h, NoErr, FALSE, Undefined)

\* a mergeArray without the truncation loop
TruncateNone(h, dest, source, changed) == R(h, NoErr, changed, Undefined)

\* while (dest.length > source.length) { dest.pop(); changed = true; }
Truncate(h, dest, source, changed) ==
    IF ArrayLength(h, dest) > ArrayLength(h, source)
    THEN R(SetItems(h, dest.v, SubSeq(h[dest.v].items, 1, ArrayLength(h, source))),
           NoErr, TRUE, Undefined)
    ELSE R(h, NoErr, changed, Undefined)

RECURSIVE FindMatch(_, _, _, _, _)

\* dest[j] was compared with newItem, with outcome km
FindMatchNext(h, p, dest, newItem, j, km) ==
    IF km.err # NoErr THEN Matched(km.err, -1)
    ELSE IF km.val THEN Matched(NoErr, j)
    ELSE FindMatch(h, p, dest, newItem, j + 1)

\* a scan without the break: found is the last j whose item matches
FindMatchLast(h, p, dest, newItem, j) ==
    Matched(NoErr,
            IF \E n \in j..(ArrayLength(h, dest) - 1) :
                   ItemMatches(h, p, GetIndex(h, dest, n), newItem).val
            THEN CHOOSE n \in j..(ArrayLength(h, dest) - 1) :
                   /\ ItemMatches(h, p, GetIndex(h, dest, n), newItem).val
                   /\ \A m \in (n + 1)..(ArrayLength(h, dest) - 1) :
                          ~ItemMatches(h, p, GetIndex(h, dest, m), newItem).val
            ELSE -1)

\* for (let j = ...; j < dest.length; j++): the first j whose item matches
FindMatch(h, p, dest, newItem, j) ==
    IF j >= ArrayLength(h, dest) THEN Matched(NoErr, -1)
    ELSE FindMatchNext(h, p, dest, newItem, j, ItemMatches(h, p, GetIndex(h, dest, j), newItem))

\* a scan that starts one entry too far
ScanStartSkip(i) == i + 2

\* the index the scan for source[i] starts at
ScanStart(i) == i + 1

\* if (i !== found) dest[i] = dest[found]
Move(d, i, found) == IF i # found THEN [d EXCEPT ![i + 1] = d[found + 1]] ELSE d

\* a swap that moves dest[found] and does not put oldItem back
SwapLost(d, i, found, oldItem) ==
    IF Truthy(oldItem) THEN Move(d, i, found) ELSE Splice(Move(d, i, found), found)

\* the swap: the move, then dest[found] = oldItem, or dest.splice(found, 1)
Swap(d, i, found, oldItem) ==
    IF Truthy(oldItem) THEN [Move(d, i, found) EXCEPT ![found + 1] = oldItem]
    ELSE Splice(Move(d, i, found), found)

\* if (oldItem) dest.push(oldItem)
PushOld(h, dest, oldItem) ==
    IF Truthy(oldItem) THEN SetItems(h, dest.v, Append(h[dest.v].items, oldItem)) ELSE h

(***************************************************************************)
(* Field.deserialize, deserializeCopy and mergeArray call each other.      *)
(***************************************************************************)
RECURSIVE FieldDeserialize(_, _, _, _)
RECURSIVE DeserializeCopy(_, _, _, _)
RECURSIVE DeserializeCopyFrom(_, _, _, _, _, _)
RECURSIVE MapItems(_, _, _, _, _, _, _)
RECURSIVE MergeArray(_, _, _, _, _)
RECURSIVE MergeArrayFrom(_, _, _, _, _, _, _)
RECURSIVE MergeStep(_, _, _, _, _, _)

\* an early return that hands back the current value
NullResultCurrent(h, props, current) == R(h, NoErr, StrictNotEqual(props, current), current)

\* if (props === undefined || props === null || !this.ctor) return [props !== current, props]
NullResult(h, props, current) == R(h, NoErr, StrictNotEqual(props, current), props)

\* a construction that ignores the current value
ConstructAlways(h, field, current) ==
    Allocated(Append(h, NewInstance(field.ctor)), Ref(Len(h) + 1))

\* const value = current ?? new this.ctor(): the heap, and the value in it
Construct(h, field, current) ==
    IF IsNullish(current)
    THEN Allocated(Append(h, NewInstance(field.ctor)), Ref(Len(h) + 1))
    ELSE Allocated(h, current)

\* const changed = deserializeCopy(persistence, value, props); return [changed, value]
DeserializeValue(field, props, c) ==
    WithVal(DeserializeCopy(c.heap, field.ctor, c.val, props), c.val)

\* the pair [changed, value] as a JavaScript value
Tuple(changed, value) == [k |-> "tuple", v |-> <<changed, value>>]

\* return [r.changed, r.val]
Paired(r) == IF r.err # NoErr THEN r ELSE WithVal(r, Tuple(r.changed, r.val))

\* deserialize: value => new Test(value)
CustomDeserialize(h, ctor, value) ==
    R(Append(h, HeapObject(ctor, "value" :> value, <<>>)), NoErr, FALSE, Ref(Len(h) + 1))

\* deserializeInto: (value, instance) =>
\*     { const changed = instance.value !== value; instance.value = value; return changed }
CustomDeserializeInto(h, value, instance) ==
    R(SetProp(h, instance.v, "value", value), NoErr,
      StrictNotEqual(GetProp(h, instance, "value"), value), instance)

\* an in-place path that reports a change whatever the deserializer returns
InPlaceChanged(h, props, current) ==
    Paired(WithChanged(CustomDeserializeInto(h, props, current), TRUE))

\* const changed = persistence.deserializeInto(props, current); return [changed, current]
InPlace(h, props, current) == Paired(CustomDeserializeInto(h, props, current))

\* Field.deserialize(props, current): r.val is the value the method returns
FieldDeserializeResult(h, field, props, current) ==
    IF IsNullish(props) \/ field.ctor = NoCtor THEN Paired(NullResult(h, props, current))
    ELSE IF ~HasPersistence(field.ctor) THEN R(h, PersistenceRequired, FALSE, Undefined)
    ELSE IF Truthy(current) /\ HasDeserializeInto(field.ctor) THEN InPlace(h, props, current)
    ELSE IF HasDeserialize(field.ctor) THEN CustomDeserialize(h, field.ctor, props)
    ELSE Paired(DeserializeValue(field, props, Construct(h, field, current)))

\* const [updated, newValue] = r.val: a pair gives its two elements; the
\* objects the deserializers of the model return are not iterable
Destructured(r) ==
    IF r.err # NoErr THEN r
    ELSE IF r.val.k = "tuple" THEN R(r.heap, NoErr, r.val.v[1], r.val.v[2])
    ELSE R(r.heap, TypeError, FALSE, Undefined)

\* const [updated, newValue] = field.deserialize(props, current), as every
\* caller in Serialization.ts reads the result
FieldDeserialize(h, field, props, current) ==
    Destructured(FieldDeserializeResult(h, field, props, current))

\* a loop that skips no field
SkipNever(h, props, name) == FALSE

\* if (typeof props === 'object' && !props.hasOwnProperty(name)) continue;
SkipField(h, props, name) == TypeOf(props) = "object" /\ ~HasOwnProperty(h, props, name)

\* item index is deserialized with result r; go on with the rest of the list
MapItemsNext(field, currentProp, newProp, index, changed, acc, r) ==
    IF r.err # NoErr THEN WithVal(WithChanged(r, changed), acc)
    ELSE MapItems(r.heap, field, currentProp, newProp, index + 1, changed \/ r.changed,
                  Append(acc, r.val))

\* newProp.map((item, index) => { ... field.deserialize(item, currentProp?.[index]) ... }):
\* val is the sequence of the new values
MapItems(h, field, currentProp, newProp, index, changed, acc) ==
    IF index >= ArrayLength(h, newProp) THEN R(h, NoErr, changed, acc)
    ELSE MapItemsNext(field, currentProp, newProp, index, changed, acc,
                      FieldDeserialize(h, field, GetIndex(h, newProp, index),
                                       GetIndex(h, currentProp, index)))

\* an assignment that does not look at updated
StoreAlways(current, field, changed, r) ==
    IF r.err # NoErr THEN WithChanged(r, changed)
    ELSE R(SetProp(r.heap, current.v, field.prop, r.val), NoErr, TRUE, Undefined)

\* if (updated) { field.set(current, newValue); changed = true; }
Store(current, field, changed, r) ==
    IF r.err # NoErr THEN WithChanged(r, changed)
    ELSE IF r.changed THEN R(SetProp(r.heap, current.v, field.prop, r.val), NoErr, TRUE, Undefined)
    ELSE R(r.heap, NoErr, changed, Undefined)

\* currentProp = newProp.map(...); if (changed) field.set(current, currentProp)
StoreList(current, field, m) ==
    IF m.err # NoErr THEN m
    ELSE IF m.changed
    THEN R(SetProp(Append(m.heap, HeapObject("Array", <<>>, m.val)), current.v, field.prop,
                   Ref(Len(m.heap) + 1)),
           NoErr, TRUE, Undefined)
    ELSE R(Append(m.heap, HeapObject("Array", <<>>, m.val)), NoErr, FALSE, Undefined)

\* if (!Array.isArray(currentProp)) { currentProp = []; field.set(current, currentProp); }
EnsureArray(h, current, field, currentProp) ==
    IF IsArray(h, currentProp) THEN Allocated(h, currentProp)
    ELSE Allocated(SetProp(Append(h, HeapObject("Array", <<>>, <<>>)), current.v, field.prop,
                           Ref(Len(h) + 1)),
                   Ref(Len(h) + 1))

\* if (mergeArray(objPersistence, field, currentProp, newProp)) changed = true
Merged(changed, m) == WithChanged(m, changed \/ m.changed)

\* the call of mergeArray on the array a of the field
MergeInto(field, newProp, changed, a) ==
    Merged(changed, MergeArray(a.heap, field.ctor, field, a.val, newProp))

\* a copy field that counts as changed only if the value differs
SetCopyIfNew(h, current, field, currentProp, newProp) ==
    R(SetProp(h, current.v, field.prop, newProp), NoErr, StrictNotEqual(newProp, currentProp),
      Undefined)

\* if (field.copy) { field.set(current, newProp); changed = true; continue; }
SetCopy(h, current, field, currentProp, newProp) ==
    R(SetProp(h, current.v, field.prop, newProp), NoErr, TRUE, Undefined)

\* a list without element type stored as a copy of the incoming list
SetListCopied(h, current, field, newProp) ==
    R(SetProp(Append(h, h[newProp.v]), current.v, field.prop, Ref(Len(h) + 1)), NoErr, TRUE,
      Undefined)

\* field.set(current, newProp); changed = true, for a list without element type
SetList(h, current, field, newProp) ==
    R(SetProp(h, current.v, field.prop, newProp), NoErr, TRUE, Undefined)

\* the body of the loop of deserializeCopy for one field that is not
\* skipped: the heap it leaves and the value of changed after it
DeserializeField(h, current, field, currentProp, newProp, changed) ==
    IF field.copy THEN SetCopy(h, current, field, currentProp, newProp)
    ELSE IF TypeOf(newProp) = "object" /\ newProp # Null THEN
        IF IsArray(h, newProp) THEN
            IF HasPersistence(field.ctor) /\ Len(KeysOf(field.ctor)) > 0
            THEN MergeInto(field, newProp, changed, EnsureArray(h, current, field, currentProp))
            ELSE IF HasPersistence(field.ctor)
            THEN StoreList(current, field,
                           MapItems(h, field, currentProp, newProp, 0, changed, <<>>))
            ELSE SetList(h, current, field, newProp)
        ELSE
            IF ~HasPersistence(field.ctor) THEN R(h, NoErr, changed, Undefined)
            ELSE Store(current, field, changed, FieldDeserialize(h, field, newProp, currentProp))
    ELSE Store(current, field, changed, FieldDeserialize(h, field, newProp, currentProp))

\* field n left r; go on with the next field
DeserializeCopyNext(p, current, props, n, r) ==
    IF r.err # NoErr THEN r
    ELSE DeserializeCopyFrom(r.heap, p, current, props, n + 1, r.changed)

\* the loop over persistence.fields.entries(), from field n on
DeserializeCopyFrom(h, p, current, props, n, changed) ==
    IF n > Len(Persistence[p].fields) THEN R(h, NoErr, changed, Undefined)
    ELSE IF IsNullish(props) \/ current.k # "object" THEN R(h, TypeError, changed, Undefined)
    ELSE IF SkipField(h, props, Persistence[p].fields[n].name)
    THEN DeserializeCopyFrom(h, p, current, props, n + 1, changed)
    ELSE DeserializeCopyNext(p, current, props, n,
            DeserializeField(h, current, Persistence[p].fields[n],
                             FieldGet(h, Persistence[p].fields[n], current),
                             GetProp(h, props, Persistence[p].fields[n].name),
                             changed))

\* deserializeCopy(persistence, current, props); no registered type extends
\* Model, so the trailing notifyListeners is not taken
DeserializeCopy(h, p, current, props) == DeserializeCopyFrom(h, p, current, props, 1, FALSE)

\* found < 0: dest[i] = newValue; changed = true
PlaceNew(dest, i, r) ==
    IF r.err # NoErr THEN WithChanged(r, FALSE)
    ELSE R(SetIndex(r.heap, dest.v, i, r.val), NoErr, TRUE, Undefined)

\* found >= 0: changed by the move (i !== found) or by
\* deserializeCopy(persistence, dest[i], newItem), whose result is r
MergeMoved(moved, r) == WithChanged(r, moved \/ r.changed)

\* found >= 0, after the swap that leaves h
MergeSwapped(h, p, dest, i, found, newItem) ==
    MergeMoved(i # found, DeserializeCopy(h, p, GetIndex(h, dest, i), newItem))

\* the scan for newItem ended with f
MergeScanned(h, p, field, dest, i, oldItem, newItem, f) ==
    IF f.err # NoErr THEN R(h, f.err, FALSE, Undefined)
    ELSE IF f.val < 0
    THEN PlaceNew(dest, i, FieldDeserialize(PushOld(h, dest, oldItem), field, newItem, Undefined))
    ELSE MergeSwapped(SetItems(h, dest.v, Swap(h[dest.v].items, i, f.val, oldItem)),
                      p, dest, i, f.val, newItem)

\* oldItem was compared with newItem, with outcome km
MergeCompared(h, p, field, dest, i, oldItem, newItem, km) ==
    IF km.err # NoErr THEN R(h, km.err, FALSE, Undefined)
    ELSE IF km.val THEN DeserializeCopy(h, p, oldItem, newItem)
    ELSE MergeScanned(h, p, field, dest, i, oldItem, newItem,
                      FindMatch(h, p, dest, newItem, ScanStart(i)))

\* one iteration of the for loop of mergeArray; changed is what the
\* iteration contributes
MergeStep(h, p, field, dest, source, i) ==
    MergeCompared(h, p, field, dest, i, GetIndex(h, dest, i), GetIndex(h, source, i),
                  ItemMatches(h, p, GetIndex(h, dest, i), GetIndex(h, source, i)))

\* iteration i left s; go on with the next
MergeArrayNext(p, field, dest, source, i, changed, s) ==
    IF s.err # NoErr THEN WithChanged(s, changed)
    ELSE MergeArrayFrom(s.heap, p, field, dest, source, i + 1, changed \/ s.changed)

\* for (let i = 0; i < source.length; i++)
MergeArrayFrom(h, p, field, dest, source, i, changed) ==
    IF i >= ArrayLength(h, source) THEN R(h, NoErr, changed, Undefined)
    ELSE MergeArrayNext(p, field, dest, source, i, changed,
                        MergeStep(h, p, field, dest, source, i))

\* the for loop ended with looped; the truncation follows
MergeArrayEnd(dest, source, looped) ==
    IF looped.err # NoErr THEN looped
    ELSE Truncate(looped.heap, dest, source, looped.changed)

\* the padding left padded; the for loop follows
MergeArrayPadded(p, field, dest, source, padded) ==
    MergeArrayEnd(dest, source,
                  MergeArrayFrom(padded.heap, p, field, dest, source, 0, padded.changed))

\* mergeArray(persistence, field, dest, source)
MergeArray(h, p, field, dest, source) ==
    MergeArrayPadded(p, field, dest, source, Pad(h, dest, source))

(***************************************************************************)
(* toSerializable; no registered type has a custom serialize, and no value *)
(* is a function or a symbol.                                              *)
(***************************************************************************)
RECURSIVE ToSerializable(_, _)
RECURSIVE ToSerializableFrom(_, _, _, _, _)
RECURSIVE ToSerializableItems(_, _, _, _)

\* element index is converted with result r; go on with the rest
ToSerializableItemsNext(arr, index, acc, r) ==
    IF r.err # NoErr THEN WithVal(r, acc)
    ELSE ToSerializableItems(r.heap, arr, index + 1, Append(acc, r.val))

\* value.map(toSerializable): val is the sequence of the converted elements
ToSerializableItems(h, arr, index, acc) ==
    IF index >= ArrayLength(h, arr) THEN R(h, NoErr, FALSE, acc)
    ELSE ToSerializableItemsNext(arr, index, acc, ToSerializable(h, GetIndex(h, arr, index)))

\* the array value.map returns
NewArray(m) ==
    IF m.err # NoErr THEN m
    ELSE R(Append(m.heap, HeapObject("Array", <<>>, m.val)), NoErr, FALSE, Ref(Len(m.heap) + 1))

\* result[name] = value, for the converted value r; go on with the next field.
\* result is the sequence of the entries assigned so far (the names of a
\* fields map are distinct, so that every assignment adds an entry)
ToSerializableNext(instance, p, n, result, r) ==
    IF r.err # NoErr THEN r
    ELSE ToSerializableFrom(r.heap, instance, p, n + 1,
                            Append(result, <<Persistence[p].fields[n].name, r.val>>))

\* the object with the given entries: its properties, and as items its own
\* keys in the order they were assigned in
FromEntries(entries) ==
    HeapObject("Object",
               [name \in {entries[i][1] : i \in DOMAIN entries} |->
                   entries[CHOOSE i \in DOMAIN entries : entries[i][1] = name][2]],
               [i \in DOMAIN entries |-> entries[i][1]])

\* a mutant of NotEmitted: transient fields are emitted
NotEmittedUndefined(field, value) == value = Undefined

\* if (field.transient) continue; ... if (value === undefined) continue
NotEmitted(field, value) == field.transient \/ value = Undefined

\* the loop over persistence.fields.entries(), from field n on
ToSerializableFrom(h, instance, p, n, result) ==
    IF n > Len(Persistence[p].fields)
    THEN R(Append(h, FromEntries(result)), NoErr, FALSE, Ref(Len(h) + 1))
    ELSE IF NotEmitted(Persistence[p].fields[n], FieldGet(h, Persistence[p].fields[n], instance))
    THEN ToSerializableFrom(h, instance, p, n + 1, result)
    ELSE ToSerializableNext(instance, p, n, result,
            IF IsArray(h, FieldGet(h, Persistence[p].fields[n], instance))
            THEN NewArray(ToSerializableItems(h, FieldGet(h, Persistence[p].fields[n], instance),
                                              0, <<>>))
            ELSE ToSerializable(h, FieldGet(h, Persistence[p].fields[n], instance)))

ToSerializable(h, instance) ==
    IF instance.k # "object" THEN R(h, NoErr, FALSE, instance)
    ELSE IF ~HasPersistence(h[instance.v].type) THEN R(h, PersistenceRequired, FALSE, Undefined)
    ELSE IF h[instance.v].type \in ConverterTypes
    THEN R(h, NoErr, FALSE, GetProp(h, instance, "value"))
    ELSE ToSerializableFrom(h, instance, h[instance.v].type, 1, <<>>)

(***************************************************************************)
(* The conversion API (index.ts).  JSON text is modelled by the plain-data *)
(* tree it denotes: JSON.stringify drops members whose value is undefined  *)
(* and writes undefined elements as null; JSON.parse is AllocTree.         *)
(***************************************************************************)
RECURSIVE Stringify(_, _)
Stringify(h, x) ==
    IF x.k # "object" THEN x
    ELSE IF h[x.v].type = "Array"
    THEN ListOf([n \in DOMAIN h[x.v].items |->
                    IF h[x.v].items[n] = Undefined THEN Null ELSE Stringify(h, h[x.v].items[n])])
    ELSE MapOf([n \in {m \in DOMAIN h[x.v].props : h[x.v].props[m] # Undefined} |->
                    Stringify(h, h[x.v].props[n])])

\* JSON.stringify(serializable): val is the JSON text
Stringified(r) == IF r.err # NoErr THEN r ELSE WithVal(r, Stringify(r.heap, r.val))

\* serialize(value)
Serialize(h, value) == Stringified(ToSerializable(h, value))

\* requirePersistence(value) returns
Registered(h, value) == value.k = "object" /\ HasPersistence(h[value.v].type)

\* copyInto(value, props)
CopyInto(h, value, props) ==
    IF ~Registered(h, value) THEN R(h, PersistenceRequired, FALSE, Undefined)
    ELSE DeserializeCopy(h, h[value.v].type, value, props)

\* const obj = JSON.parse(json); return deserializeCopy(persistence, value, obj)
DeserializeParsed(p, value, obj) == DeserializeCopy(obj.heap, p, value, obj.val)

\* deserializeInto(value, json)
DeserializeInto(h, value, json) ==
    IF ~Registered(h, value) THEN R(h, PersistenceRequired, FALSE, Undefined)
    ELSE DeserializeParsed(h[value.v].type, value, AllocTree(h, json))

\* deserialize(ctor, json): val is the new instance
Deserialize(h, ctor, json) ==
    WithVal(DeserializeInto(Append(h, NewInstance(ctor)), Ref(Len(h) + 1), json), Ref(Len(h) + 1))

(***************************************************************************)
(* String-keyed map fields (a field whose ctor is { value: T }).  Their    *)
(* merge is not in Serialization.ts as given; it follows rule 7 of the     *)
(* merge engine and the 'maps' tests: a Map is a heap object of type       *)
(* "Map" whose properties are its entries.                                 *)
(***************************************************************************)
IsMap(h, x) == x.k = "object" /\ h[x.v].type = "Map"

\* the field that describes the values of the map a field holds
ValueField(field) == Field(field.name, field.prop, "Variable", field.transient, field.copy)

RECURSIVE MergeMapFrom(_, _, _, _, _, _)

\* the value under key is merged with result r: a new entry is inserted,
\* an existing instance was merged in place; go on with the other keys
MergeMapNext(field, dest, newProp, todo, changed, key, added, r) ==
    IF r.err # NoErr THEN WithChanged(r, changed)
    ELSE MergeMapFrom(IF added THEN SetProp(r.heap, dest.v, key, r.val) ELSE r.heap,
                      field, dest, newProp, todo \ {key}, changed \/ added \/ r.changed)

\* one incoming key: construct and merge, or merge into the existing entry
MergeMapKey(h, field, dest, newProp, todo, changed, key) ==
    MergeMapNext(field, dest, newProp, todo, changed, key, ~HasOwnProperty(h, dest, key),
                 FieldDeserialize(h, ValueField(field), GetProp(h, newProp, key),
                                  GetProp(h, dest, key)))

\* for each incoming key of todo
MergeMapFrom(h, field, dest, newProp, todo, changed) ==
    IF todo = {} THEN R(h, NoErr, changed, Undefined)
    ELSE MergeMapKey(h, field, dest, newProp, todo, changed, CHOOSE key \in todo : TRUE)

\* an initialization that does not count as a change
EnsureMapQuiet(h, current, field, currentProp) ==
    IF IsMap(h, currentProp) THEN R(h, NoErr, FALSE, currentProp)
    ELSE R(SetProp(Append(h, HeapObject("Map", <<>>, <<>>)), current.v, field.prop,
                   Ref(Len(h) + 1)),
           NoErr, FALSE, Ref(Len(h) + 1))

\* a destination that is no Map is replaced by a new empty Map, which
\* counts as a change
EnsureMap(h, current, field, currentProp) ==
    IF IsMap(h, currentProp) THEN R(h, NoErr, FALSE, currentProp)
    ELSE R(SetProp(Append(h, HeapObject("Map", <<>>, <<>>)), current.v, field.prop,
                   Ref(Len(h) + 1)),
           NoErr, TRUE, Ref(Len(h) + 1))

\* a merge that clears the Map first
MergeMapCleared(field, newProp, changed, a) ==
    MergeMapFrom([a.heap EXCEPT ![a.val.v].props = <<>>], field, a.val, newProp,
                 DOMAIN a.heap[newProp.v].props, changed \/ a.changed)

\* the merge of the incoming object newProp into the Map a of the field
MergeMapInto(field, newProp, changed, a) ==
    MergeMapFrom(a.heap, field, a.val, newProp, DOMAIN a.heap[newProp.v].props,
                 changed \/ a.changed)

\* the merge of a string-keyed map field
MergeMap(h, current, field, currentProp, newProp, changed) ==
    MergeMapInto(field, newProp, changed, EnsureMap(h, current, field, currentProp))

\* deserializeCopy for a VariableSet: its one field, data, is a map field
DeserializeCopyMaps(h, current, props) ==
    IF IsNullish(props) THEN R(h, TypeError, FALSE, Undefined)
    ELSE IF SkipField(h, props, "data") THEN R(h, NoErr, FALSE, Undefined)
    ELSE IF GetProp(h, props, "data").k = "object" /\ ~IsArray(h, GetProp(h, props, "data"))
    THEN MergeMap(h, current, Persistence["VariableSet"].fields[1],
                  FieldGet(h, Persistence["VariableSet"].fields[1], current),
                  GetProp(h, props, "data"), FALSE)
    ELSE DeserializeCopy(h, "VariableSet", current, props)

(***************************************************************************)
(* The instances and the plain-data inputs the model explores.             *)
(***************************************************************************)
\* longest unkeyed list
MaxPoints == 2

\* marks a key an object literal leaves out
Absent == [k |-> "absent", v |-> 0]
Opt(key, val) == IF val = Absent THEN <<>> ELSE (key :> val)

\* the lists over S of at most n elements
Lists(S, n) == UNION {[1..m -> S] : m \in 0..n}

Names == {"a", "b"}

\* Team.members: Player objects and null entries
PlayerObjects == {New("Player", ("id" :> Num(i)) @@ ("name" :> Str("a"))) : i \in 1..MaxId}
TeamGraphs ==
    {New("Team", <<>>)} \cup
    {New("Team", ("members" :> ListOf(l))) : l \in Lists(PlayerObjects \cup {Null}, MaxLen)}
SourceEntries == {MapOf(("id" :> Num(i)) @@ ("name" :> Str(n))) : i \in 1..MaxId, n \in Names}
TeamInputs ==
    {EmptyMap, MapOf("members" :> Null), MapOf("members" :> Undefined)} \cup
    {MapOf("members" :> ListOf(l)) : l \in Lists(SourceEntries, MaxLen)}

Scalars == {Undefined, Null, Num(1), Num(2)}
PointGraphs == {New("Point", ("x" :> a) @@ ("y" :> b)) : a \in Scalars, b \in {Undefined, Num(1)}}
PointInputs ==
    {MapOf(Opt("x", a) @@ Opt("y", b)) : a \in Scalars \cup {Absent}, b \in {Absent, Null, Num(1)}}

PointMaps == {EmptyMap, MapOf("x" :> Num(1)), MapOf("x" :> Num(2)), MapOf("x" :> Null)}
LineGraphs ==
    {New("Line", Opt("start", a) @@ Opt("end", b)) :
        a \in {Absent, Null, New("Point", <<>>), New("Point", "x" :> Num(1))},
        b \in {Absent, New("Point", "x" :> Num(2))}}
LineInputs ==
    {MapOf(Opt("start", a) @@ Opt("end", b)) :
        a \in PointMaps \cup {Absent, Undefined, Null},
        b \in {Absent, EmptyMap, MapOf("x" :> Num(2))}}

PointListGraphs ==
    {New("PointList", <<>>)} \cup
    {New("PointList", "values" :> ListOf(l)) :
        l \in Lists({New("Point", "x" :> Num(1)), New("Point", "x" :> Num(2))}, MaxPoints)}
PointListInputs ==
    {EmptyMap, MapOf("values" :> Null)} \cup
    {MapOf("values" :> ListOf(l)) : l \in Lists(PointMaps, MaxPoints)}

NumberListGraphs ==
    {New("NumberList", <<>>)} \cup
    {New("NumberList", "values" :> ListOf(l)) : l \in Lists({Num(1), Num(2)}, MaxPoints)}
NumberListInputs ==
    {EmptyMap, MapOf("values" :> Null)} \cup
    {MapOf("values" :> ListOf(l)) : l \in Lists({Num(1), Num(2)}, MaxPoints)}

DocGraphs ==
    {New("Doc", Opt("title", a) @@ Opt("raw", b)) :
        a \in {Absent, Str("a")}, b \in {Absent, Num(1), MapOf("x" :> Num(1))}}
DocInputs ==
    {MapOf(Opt("title", a) @@ Opt("raw", b)) :
        a \in {Absent, Str("a"), Str("b"), ListOf(<<Num(1)>>), MapOf("x" :> Num(1))},
        b \in {Absent, Undefined, Num(1), MapOf("x" :> Num(1))}}

Graphs ==
    TeamGraphs \cup PointGraphs \cup LineGraphs \cup PointListGraphs \cup NumberListGraphs \cup DocGraphs

Inputs(t) ==
    CASE t = "Team" -> TeamInputs
      [] t = "Point" -> PointInputs
      [] t = "Line" -> LineInputs
      [] t = "PointList" -> PointListInputs
      [] t = "NumberList" -> NumberListInputs
      [] t = "Doc" -> DocInputs

(***************************************************************************)
(* The state: the heap, the instance under test, the phase of the caller,  *)
(* a record of the last call (its input, the heap it started from, what    *)
(* it returned) and the loop index i of a mergeArray that is under way.    *)
(***************************************************************************)
VARIABLES heap, root, pc, last, iter

(***************************************************************************)
(* The change notifier's state, for the Model instances whose notifier is  *)
(* followed (the domain of version): the private fields version, listeners *)
(* and dirtyProps of each, the module's taskQueue and the number of        *)
(* flushTasks callbacks the host has been handed and has not run yet.      *)
(* notified looks back over the current turn (the names passed to          *)
(* notifyListeners per instance), flushed over                             *)
(* the last run of flushTasks; turn counts the runs of flushTasks, calls   *)
(* the calls made so far.                                                  *)
(***************************************************************************)
VARIABLES version, listeners, dirtyProps, taskQueue, scheduled, notified, calls, flushed, turn

notifier == <<version, listeners, dirtyProps, taskQueue, scheduled, notified, calls, flushed, turn>>

vars == <<heap, root, pc, last, iter, notifier>>

\* no run of flushTasks yet
NotFlushed == [notified |-> <<>>, runs |-> <<>>]

\* no instance's notifier is followed
Unfollowed ==
    /\ version = <<>>
    /\ listeners = <<>>
    /\ dirtyProps = <<>>
    /\ taskQueue = <<>>
    /\ scheduled = 0
    /\ notified = <<>>
    /\ calls = 0
    /\ flushed = NotFlushed
    /\ turn = 0

Call(op, d, props, pre, r, out) ==
    [op |-> op, d |-> d, props |-> props, pre |-> pre,
     changed |-> r.changed, err |-> r.err, out |-> out]

NoCall == [op |-> "none", d |-> Undefined, props |-> Undefined, pre |-> <<>>,
           changed |-> FALSE, err |-> NoErr, out |-> Undefined]

RootType == heap[root.v].type

\* the caller built the instance a
Built(a) ==
    /\ heap = a.heap
    /\ root = a.val
    /\ pc = "ready"
    /\ last = NoCall
    /\ iter = 0
    /\ Unfollowed

Init == \E g \in Graphs : Built(AllocTree(<<>>, g))

\* a call with argument a, started in heap a.heap, ended with r
Ended(op, d, a, r, out) ==
    /\ heap' = r.heap
    /\ last' = Call(op, d, a.val, a.heap, r, out)
    /\ UNCHANGED notifier

\* copyInto(root, d) for the plain-data object d, allocated as a
MergeOf(d, a) == Ended("copyInto", d, a, CopyInto(a.heap, root, a.val), root)

\* copyInto(root, d) for a plain-data object d
Merge ==
    /\ pc = "ready"
    /\ \E d \in Inputs(RootType) : MergeOf(d, AllocTree(heap, d))
    /\ pc' = "merged"
    /\ UNCHANGED <<root, iter>>

\* copyInto(root, d) once more with the plain-data object of the last call
MergeAgain ==
    /\ pc = "merged"
    /\ last.err = NoErr
    /\ Ended("again", last.d, Allocated(heap, last.props), CopyInto(heap, root, last.props), root)
    /\ pc' = "again"
    /\ UNCHANGED <<root, iter>>

\* copyInto(c, {}) for the copy c and the empty map e
RoundTripMerge(s, c, e) ==
    Ended("roundTrip", s.val, Allocated(heap, e.val), CopyInto(e.heap, c.val, e.val), c.val)

\* deserialize returned the copy c, or threw
RoundTripCopy(s, c) ==
    IF c.err # NoErr
    THEN Ended("roundTrip", s.val, Allocated(heap, Undefined), c, Undefined)
    ELSE RoundTripMerge(s, c, AllocTree(c.heap, EmptyMap))

\* serialize returned the text s.val, or threw
RoundTripText(s) ==
    IF s.err # NoErr
    THEN Ended("roundTrip", Undefined, Allocated(heap, Undefined), s, Undefined)
    ELSE RoundTripCopy(s, Deserialize(s.heap, RootType, s.val))

\* copyInto(deserialize(T, serialize(root)), {})
RoundTrip ==
    /\ pc = "ready"
    /\ RoundTripText(Serialize(heap, root))
    /\ pc' = "copied"
    /\ UNCHANGED <<root, iter>>

Next == Merge \/ MergeAgain \/ RoundTrip

Spec == Init /\ [][Next]_vars

TypeOK ==
    /\ pc \in {"ready", "merged", "again", "copied", "pad", "loop", "done", "thrown"}
    /\ root.k = "object"
    /\ last.err \in {NoErr, TypeError, PersistenceRequired}
    /\ iter \in 0..MaxLen

(***************************************************************************)
(* mergeArray step by step: the padding, one iteration of the for loop at  *)
(* a time, the truncation.  The destination is the members list of a Team  *)
(* and the source the members list of a plain-data object.                 *)
(***************************************************************************)
\* the field Team.members
Members == Persistence["Team"].fields[1]

\* the arguments dest and source of the call
Dest == GetProp(heap, root, "members")
Source == GetProp(heap, last.props, "members")

\* the team a and the plain-data object b are built; mergeArray is entered
Entered(d, a, b) ==
    /\ heap = b.heap
    /\ root = a.val
    /\ pc = "pad"
    /\ last = Call("mergeArray", d, b.val, b.heap, R(b.heap, NoErr, FALSE, Undefined), a.val)
    /\ iter = 0
    /\ Unfollowed

\* the team a is built; the plain-data object d follows
EnteredWith(d, a) == Entered(d, a, AllocTree(a.heap, d))

\* source entries that give the identity key only
KeyEntries == {MapOf("id" :> Num(n)) : n \in 1..MaxId}

InitSteps ==
    \E l \in Lists(PlayerObjects \cup {Null}, MaxDest), s \in Lists(KeyEntries, MaxLen) :
        EnteredWith(MapOf("members" :> ListOf(s)),
                    AllocTree(<<>>, New("Team", "members" :> ListOf(l))))

\* a step of mergeArray ended with r
Stepped(r) ==
    /\ heap' = r.heap
    /\ last' = [last EXCEPT !.pre = heap, !.changed = r.changed, !.err = r.err]
    /\ UNCHANGED notifier

\* the while loop that pads dest
PadStep ==
    /\ pc = "pad"
    /\ Stepped(Pad(heap, Dest, Source))
    /\ pc' = "loop"
    /\ UNCHANGED <<root, iter>>

\* iteration iter of the for loop ended with s
Looped(s) ==
    /\ Stepped(WithChanged(s, last.changed \/ s.changed))
    /\ pc' = IF s.err # NoErr THEN "thrown" ELSE "loop"

\* iteration iter of the for loop
LoopStep ==
    /\ pc = "loop"
    /\ iter < ArrayLength(heap, Source)
    /\ Looped(MergeStep(heap, "Player", Members, Dest, Source, iter))
    /\ iter' = iter + 1
    /\ UNCHANGED root

\* the while loop that truncates dest, and the return
TruncateStep ==
    /\ pc = "loop"
    /\ iter >= ArrayLength(heap, Source)
    /\ Stepped(Truncate(heap, Dest, Source, last.changed))
    /\ pc' = "done"
    /\ UNCHANGED <<root, iter>>

NextSteps == PadStep \/ LoopStep \/ TruncateStep

SpecSteps == InitSteps /\ [][NextSteps]_vars

(***************************************************************************)
(* The merge of a string-keyed map field: a VariableSet is built, then one *)
(* plain-data object is merged into it.                                    *)
(***************************************************************************)
MapKeys == {"x", "y"}

\* the functions from a subset of K to V
Partial(K, V) == UNION {[J -> V] : J \in SUBSET K}

VariableObjects ==
    {New("Variable", ("type" :> Str("int")) @@ ("value" :> Str(v))) : v \in {"10", "20"}}
VariableSetGraphs ==
    {New("VariableSet", "data" :> m) :
        m \in {Null} \cup {New("Map", f) : f \in Partial(MapKeys, VariableObjects)}}
VariableEntries ==
    {EmptyMap} \cup {MapOf(("type" :> Str("int")) @@ ("value" :> Str(v))) : v \in {"10", "20"}}
VariableSetInputs ==
    {EmptyMap} \cup {MapOf("data" :> MapOf(f)) : f \in Partial(MapKeys, VariableEntries)}

InitMaps == \E g \in VariableSetGraphs : Built(AllocTree(<<>>, g))

\* deserializeCopy(variableSetPersistence, root, d) for the object d,
\* allocated as a
MergeMapsOf(d, a) ==
    Ended("copyInto", d, a, DeserializeCopyMaps(a.heap, root, a.val), root)

MergeMaps ==
    /\ pc = "ready"
    /\ \E d \in VariableSetInputs : MergeMapsOf(d, AllocTree(heap, d))
    /\ pc' = "merged"
    /\ UNCHANGED <<root, iter>>

NextMaps == MergeMaps

SpecMaps == InitMaps /\ [][NextMaps]_vars

(***************************************************************************)
(* Keyed lists given bare key values: the source list of Team.members      *)
(* holds the id of a player in place of a plain-data object, which         *)
(* keysMatch compares with the one key field.                              *)
(***************************************************************************)
BareKeys == {Num(i) : i \in 1..MaxId} \cup {MapOf(("id" :> Num(1)) @@ ("name" :> Str("b")))}
KeyInputs == {MapOf("members" :> ListOf(l)) : l \in Lists(BareKeys, MaxLen)}

InitKeys == \E g \in TeamGraphs : Built(AllocTree(<<>>, g))

\* copyInto(root, d) for a plain-data object d whose list holds key values
MergeKeys ==
    /\ pc = "ready"
    /\ \E d \in KeyInputs : MergeOf(d, AllocTree(heap, d))
    /\ pc' = "merged"
    /\ UNCHANGED <<root, iter>>

NextKeys == MergeKeys

SpecKeys == InitKeys /\ [][NextKeys]_vars

(***************************************************************************)
(* toSerializable on its own: the caller builds an instance and converts   *)
(* it.  Besides the instances of the merge, there are sessions (a field    *)
(* registered under another name than its attribute, a transient field, a  *)
(* list, an attribute that is no field) and a point with the attribute z.  *)
(***************************************************************************)
SessionGraphs ==
    {New("Session", Opt("user", a) @@ Opt("token", b) @@ Opt("tags", c) @@ Opt("scratch", d)) :
        a \in {Absent, Null, Str("a")}, b \in {Absent, Str("t")},
        c \in {Absent, Null, ListOf(<<Num(1), Null>>)}, d \in {Absent, Num(3)}}

SerializableGraphs ==
    Graphs \cup SessionGraphs \cup
    {New("Point", ("x" :> Num(1)) @@ ("y" :> Num(2)) @@ ("z" :> Num(3)))}

InitSerialize == \E g \in SerializableGraphs : Built(AllocTree(<<>>, g))

\* toSerializable(root) returned r.val, or threw
Serialized(r) == Ended("toSerializable", Undefined, Allocated(heap, root), r, r.val)

\* toSerializable(root)
ToSerializableCall ==
    /\ pc = "ready"
    /\ Serialized(ToSerializable(heap, root))
    /\ pc' = "serialized"
    /\ UNCHANGED <<root, iter>>

NextSerialize == ToSerializableCall

SpecSerialize == InitSerialize /\ [][NextSerialize]_vars

(***************************************************************************)
(* Field.deserialize on its own, as the tests of Field call it: the caller *)
(* builds instances of the classes Test and InPlaceTest, makes a Field for *)
(* a constructor and calls deserialize with a value and, as current,       *)
(* nothing or one of the instances.  root is the current value of the last *)
(* call, last.d its field, last.out the value the method returned.         *)
(***************************************************************************)
\* a class without Persistence
Unregistered == "Unregistered"

FieldCtors == ConverterTypes \cup {Unregistered}
TestValues == {Num(123), Num(456)}
FieldProps == TestValues \cup {Null}

\* the values the caller can pass as current for a field of constructor ctor
CurrentsOf(h, ctor) == {Undefined} \cup {Ref(i) : i \in {j \in DOMAIN h : h[j].type = ctor}}

InitField ==
    /\ heap = <<>>
    /\ root = Undefined
    /\ pc = "ready"
    /\ last = NoCall
    /\ iter = 0
    /\ Unfollowed

\* most calls of a behaviour of the tests of Field
MaxFieldCalls == 3

\* a call of the caller, counted
Counted ==
    /\ calls < MaxFieldCalls
    /\ calls' = calls + 1
    /\ UNCHANGED <<pc, iter, version, listeners, dirtyProps, taskQueue, scheduled, notified,
                   flushed, turn>>

\* new Test(value), new InPlaceTest(value)
NewTest ==
    /\ Counted
    /\ \E ctor \in ConverterTypes, value \in TestValues :
           /\ heap' = Append(heap, HeapObject(ctor, "value" :> value, <<>>))
           /\ last' = [NoCall EXCEPT !.op = "new", !.pre = heap, !.out = Ref(Len(heap) + 1)]
    /\ UNCHANGED root

\* field.deserialize(props, current) returned r.val, or threw
FieldDeserialized(field, props, current, r) ==
    /\ heap' = r.heap
    /\ root' = current
    /\ last' = Call("deserialize", field, props, heap, r, r.val)

\* new Field(ctor, false, false, ...).deserialize(props, current)
FieldDeserializeCall ==
    /\ Counted
    /\ \E ctor \in FieldCtors, props \in FieldProps :
           \E current \in CurrentsOf(heap, ctor) :
               FieldDeserialized(Field("item", "item", ctor, FALSE, FALSE), props, current,
                                 FieldDeserializeResult(heap, Field("item", "item", ctor, FALSE, FALSE),
                                                        props, current))

NextField == NewTest \/ FieldDeserializeCall

SpecField == InitField /\ [][NextField]_vars

(***************************************************************************)
(* The change notifier (Model.ts).  The notifiers of two Variable          *)
(* instances (a Model with the watched fields type and value) are          *)
(* followed.  The code of a turn calls notifyListeners, assigns watched    *)
(* fields, merges plain data into an instance, adds and removes            *)
(* listeners; the host then runs the flushTasks it was handed.  An         *)
(* instance is named by its place in the heap; a task in taskQueue is the  *)
(* closure notifyListeners made, named by its instance.                    *)
(***************************************************************************)
MaxCalls == 3

\* if (this.version > 100000)
VersionLimit == 100000

\* the name that marks every field dirty
Wildcard == "*"

\* current instanceof Model
IsModel(h, x) == x.k = "object" /\ h[x.v].type \in {"Variable", "VariableSet"}

\* a Listener is [callback, props]: props is a Set of names or null
NoProps == [k |-> "null", v |-> {}]
SetOf(S) == [k |-> "set", v |-> S]
Listener(callback, props) == [callback |-> callback, props |-> props]

\* the state the operators below work on; rethrowing holds the instances
\* that have a handleError of their own, one that throws what it is handed
Notifier ==
    [version |-> version, listeners |-> listeners, dirtyProps |-> dirtyProps,
     taskQueue |-> taskQueue, scheduled |-> scheduled, notified |-> notified,
     rethrowing |-> {m \in DOMAIN version : HasOwnProperty(heap, Ref(m), "handleError")}]

\* addToSet(set, value): what it returns and the set afterwards
AddToSet(set, value) == [added |-> value \notin set, set |-> set \cup {value}]

\* propNames.some(p => addToSet(set, p)) from the n-th name on: some stops
\* at the first name addToSet returns true for
RECURSIVE Some(_, _, _)
Some(set, propNames, n) ==
    IF n > Len(propNames) THEN [added |-> FALSE, set |-> set]
    ELSE IF AddToSet(set, propNames[n]).added THEN AddToSet(set, propNames[n])
    ELSE Some(set, propNames, n + 1)

\* enqueue(task) for the task of instance m
Enqueue(n, m) ==
    [n EXCEPT !.scheduled = IF Len(n.taskQueue) = 0 THEN @ + 1 ELSE @,
              !.taskQueue = Append(@, m)]

\* this.version++ without the wrap
NextVersionNoWrap(v) == v + 1

\* this.version++ and the wrap
NextVersion(v) == IF v + 1 > VersionLimit THEN 1 ELSE v + 1

\* notifyListeners past its early returns: dirtyProps has become dirty
Schedule(n, m, dirty) ==
    Enqueue([n EXCEPT !.dirtyProps[m] = dirty, !.version[m] = NextVersion(@)], m)

\* notifyListeners once the dirty set was added to, with outcome s
NotifyAdded(n, m, s) == IF ~s.added THEN n ELSE Schedule(n, m, s.set)

\* m.notifyListeners(...propNames)
NotifyListeners(n, m, propNames) ==
    IF Len(propNames) > 0 THEN NotifyAdded(n, m, Some(n.dirtyProps[m], propNames, 1))
    ELSE NotifyAdded(n, m, AddToSet(n.dirtyProps[m], Wildcard))

\* the names a call passes, the wildcard standing for no names
Passed(propNames) ==
    IF Len(propNames) = 0 THEN {Wildcard} ELSE {propNames[i] : i \in 1..Len(propNames)}

\* m.notifyListeners(...propNames), the call noted for the turn
Notify(n, m, propNames) ==
    [NotifyListeners(n, m, propNames) EXCEPT !.notified[m] = @ \cup Passed(propNames)]

\* the setter watch defines, m[propertyKey] = newValue: the heap and the
\* notifier afterwards
SetWatched(h, n, m, propertyKey, newValue) ==
    IF newValue # GetProp(h, Ref(m), propertyKey)
    THEN [heap |-> SetProp(h, m, propertyKey, newValue), n |-> Notify(n, m, <<propertyKey>>)]
    ELSE [heap |-> h, n |-> n]

\* the setters deserializeCopy went through from field i on: field.set
\* reaches the setter of a watched field, which notifies when the value it
\* is given is not the one it holds (heap pre before the call, post after)
RECURSIVE SettersFrom(_, _, _, _, _, _)
SettersFrom(n, pre, post, m, fields, i) ==
    IF i > Len(fields) THEN n
    ELSE SettersFrom(IF GetProp(post, Ref(m), fields[i].prop) # GetProp(pre, Ref(m), fields[i].prop)
                     THEN Notify(n, m, <<fields[i].prop>>)
                     ELSE n,
                     pre, post, m, fields, i + 1)

\* if (changed && current instanceof Model) current.notifyListeners()
NotifyChanged(n, m, r) ==
    IF r.changed /\ IsModel(r.heap, Ref(m)) THEN Notify(n, m, <<>>) ELSE n

\* hasOverlap(setA, setB)
HasOverlap(setA, setB) == \E v \in setA : v \in setB

\* isRelevant without the test for the wildcard
IsRelevantByName(l, dirty) ==
    IF l.props.k = "set" THEN HasOverlap(dirty, l.props.v) ELSE TRUE

\* isRelevant in the task, for the listener l
IsRelevant(l, dirty) ==
    IF l.props.k = "set" THEN Wildcard \in dirty \/ HasOverlap(dirty, l.props.v) ELSE TRUE

\* this.listeners.filter(t => t[0] !== listener), for the first
\* registration of the callback only
FilterFirst(ls, callback) ==
    IF \E i \in DOMAIN ls : ls[i].callback = callback
    THEN SubSeq(ls, 1, (CHOOSE i \in DOMAIN ls :
                            /\ ls[i].callback = callback
                            /\ \A j \in 1..(i - 1) : ls[j].callback # callback) - 1)
         \o SubSeq(ls, (CHOOSE i \in DOMAIN ls :
                            /\ ls[i].callback = callback
                            /\ \A j \in 1..(i - 1) : ls[j].callback # callback) + 1, Len(ls))
    ELSE ls

\* this.listeners.filter(t => t[0] !== listener)
Filter(ls, callback) == SelectSeq(ls, LAMBDA l : l.callback # callback)

\* the callbacks that act on their instance when they are invoked: r is
\* v => model.removeListener(r), n is v => { if (v % 2 === 0)
\* model.notifyListeners() }; the others only return or throw
Reentered(n, m, l) == l.callback = "n" /\ n.version[m] % 2 = 0

\* what the call of the callback of listener l does to the notifier of
\* its instance m
Effect(n, m, l) ==
    IF l.callback = "r" THEN [n EXCEPT !.listeners[m] = Filter(@, "r")]
    ELSE IF Reentered(n, m, l) THEN Notify(n, m, <<>>)
    ELSE n

\* callback(this.version) is called: invoked lists the listeners called,
\* reentered the places in it of the calls that called notifyListeners
Invoked(run, l) ==
    [run EXCEPT !.invoked = Append(@, l),
                !.reentered = IF Reentered(run.n, run.this, l)
                              THEN Append(@, Len(run.invoked) + 1) ELSE @,
                !.n = Effect(@, run.this, l)]

\* handleError(e): console.error(e), or the instance's own handleError,
\* which throws e; errors lists what it was handed
HandleError(run, e) ==
    [run EXCEPT !.errors = Append(@, e), !.thrown = run.this \in run.n.rethrowing]

\* callback(this.version) outside a try: an exception leaves the task
InvokeUncaught(run, l, throwing) ==
    [Invoked(run, l) EXCEPT !.thrown = l.callback \in throwing]

\* try { callback(this.version) } catch (e) { this.handleError(e) } for the
\* listener l; the callbacks in throwing throw, each its own exception
Invoke(run, l, throwing) ==
    IF l.callback \in throwing THEN HandleError(Invoked(run, l), l.callback)
    ELSE Invoked(run, l)

\* the for loop of the task, from listener i on: this.listeners and
\* this.dirtyProps are read anew in every iteration
RECURSIVE Deliver(_, _, _)
Deliver(run, throwing, i) ==
    IF i > Len(run.n.listeners[run.this]) \/ run.thrown THEN run
    ELSE Deliver(IF IsRelevant(run.n.listeners[run.this][i], run.n.dirtyProps[run.this])
                 THEN Invoke(run, run.n.listeners[run.this][i], throwing)
                 ELSE run,
                 throwing, i + 1)

\* what the task of instance m does, started in the notifier state n: the
\* listeners it invokes, in order, the version, the dirty set and the
\* listeners it finds, the exceptions handleError is handed and whether an
\* exception leaves the task
TaskRun(n, m, throwing) ==
    Deliver([this |-> m, version |-> n.version[m], dirtyProps |-> n.dirtyProps[m],
             started |-> n.listeners[m], invoked |-> <<>>, reentered |-> <<>>,
             errors |-> <<>>, thrown |-> FALSE, n |-> n],
            throwing, 1)

\* what is remembered of a task that has run
Ran(run) ==
    [this |-> run.this, version |-> run.version, dirtyProps |-> run.dirtyProps,
     started |-> run.started, ended |-> run.n.listeners[run.this], invoked |-> run.invoked,
     reentered |-> run.reentered, errors |-> run.errors, thrown |-> run.thrown]

\* const task = taskQueue.pop()
Pop(n) == [n EXCEPT !.taskQueue = SubSeq(@, 1, Len(@) - 1)]

\* a task that leaves its dirty set as it is
ClearedNot(n, m) == n

\* this.dirtyProps.clear(), the last statement of the task of instance m
Cleared(n, m) == [n EXCEPT !.dirtyProps[m] = {}]

\* flushTasks: the while loop; runs lists what the tasks did
RECURSIVE FlushLoop(_, _, _)

\* the task ended as run says: an exception that leaves the task leaves
\* flushTasks as well
FlushRan(throwing, runs, run) ==
    IF run.thrown THEN [n |-> run.n, runs |-> Append(runs, Ran(run))]
    ELSE FlushLoop(Cleared(run.n, run.this), throwing, Append(runs, Ran(run)))

FlushLoop(n, throwing, runs) ==
    IF Len(n.taskQueue) = 0 THEN [n |-> n, runs |-> runs]
    ELSE FlushRan(throwing, runs, TaskRun(Pop(n), n.taskQueue[Len(n.taskQueue)], throwing))

\* the instances followed, the names and values the calls are made with
Instances == {1, 2}
PropNames == {<<>>, <<"type">>, <<"value">>, <<"type", "value">>}
Assignments == {<<"type", Str("int")>>, <<"value", Str("10")>>}
Merges == {MapOf("value" :> Str("10")), MapOf(("type" :> Str("int")) @@ ("value" :> Str("20")))}
Registrations == {<<>>, <<Listener("f", NoProps), Listener("h", SetOf({"value"}))>>}
Added == {Listener("g", SetOf({"type"}))}
Removed == {"f", "g"}
\* the callbacks that throw whenever they are invoked
Throwing == {"f"}

\* the versions the instances have reached: the second has been notified
\* and flushed often enough to stand one short of the limit
Versions == <<1, VersionLimit - 1>>

\* the notifier state n is reached
Becomes(n) ==
    /\ version' = n.version
    /\ dirtyProps' = n.dirtyProps
    /\ taskQueue' = n.taskQueue
    /\ scheduled' = n.scheduled
    /\ notified' = n.notified

\* the call op on instance m with argument props, as last remembers it
Observed(op, m, props, changed) ==
    [op |-> op, d |-> Undefined, props |-> props, pre |-> heap, changed |-> changed,
     err |-> NoErr, out |-> Ref(m), version |-> version, listeners |-> listeners,
     dirtyProps |-> dirtyProps, taskQueue |-> taskQueue, scheduled |-> scheduled]

\* two instances are constructed (new Variable() assigns nothing), the
\* listeners of both are registered and no notification is pending
InitNotify ==
    /\ heap = <<NewInstance("Variable"), NewInstance("Variable")>>
    /\ root = Ref(1)
    /\ pc = "ready"
    /\ last = NoCall
    /\ iter = 0
    /\ version = Versions
    /\ \E ls \in Registrations : listeners = [m \in Instances |-> ls]
    /\ dirtyProps = [m \in Instances |-> {}]
    /\ taskQueue = <<>>
    /\ scheduled = 0
    /\ notified = [m \in Instances |-> {}]
    /\ calls = 0
    /\ flushed = NotFlushed
    /\ turn = 0

\* the code of the turn may make another call
InTurn == calls < MaxCalls

\* a call of the turn on instance m ended with the notifier state n
Called(op, m, props, changed, n) ==
    /\ Becomes(n)
    /\ last' = Observed(op, m, props, changed)
    /\ calls' = calls + 1
    /\ UNCHANGED <<root, pc, iter, listeners, flushed, turn>>

\* m.notifyListeners(...propNames)
NotifyListenersCall ==
    /\ InTurn
    /\ \E m \in Instances, propNames \in PropNames :
           Called("notifyListeners", m, propNames, FALSE, Notify(Notifier, m, propNames))
    /\ UNCHANGED heap

\* the setter ended with s
Assigned(m, a, s) ==
    /\ heap' = s.heap
    /\ Called("set", m, a, s.heap # heap, s.n)

\* m.type = value or m.value = value
SetWatchedCall ==
    /\ InTurn
    /\ \E m \in Instances, a \in Assignments :
           Assigned(m, a, SetWatched(heap, Notifier, m, a[1], a[2]))

\* copyInto(m, d) returned r
CopiedInto(m, d, r) ==
    /\ heap' = r.heap
    /\ Called("copyInto", m, d, r.changed,
              NotifyChanged(SettersFrom(Notifier, heap, r.heap, m,
                                        Persistence[heap[m].type].fields, 1), m, r))

\* copyInto(m, d) for a plain-data object d, allocated as a
CopyIntoOf(m, d, a) == CopiedInto(m, d, CopyInto(a.heap, Ref(m), a.val))

CopyIntoCall ==
    /\ InTurn
    /\ \E m \in Instances, d \in Merges : CopyIntoOf(m, d, AllocTree(heap, d))

\* m.addListener(callback, props); past 100 listeners it also hands an
\* Error to handleError, which logs it
AddListener ==
    /\ InTurn
    /\ \E m \in Instances, l \in Added :
           /\ listeners' = [listeners EXCEPT ![m] = Append(@, l)]
           /\ last' = Observed("addListener", m, l, FALSE)
    /\ calls' = calls + 1
    /\ UNCHANGED <<heap, root, pc, iter, version, dirtyProps, taskQueue, scheduled,
                   notified, flushed, turn>>

\* m.removeListener(callback)
RemoveListener ==
    /\ InTurn
    /\ \E m \in Instances, callback \in Removed :
           /\ listeners' = [listeners EXCEPT ![m] = Filter(@, callback)]
           /\ last' = Observed("removeListener", m, callback, FALSE)
    /\ calls' = calls + 1
    /\ UNCHANGED <<heap, root, pc, iter, version, dirtyProps, taskQueue, scheduled,
                   notified, flushed, turn>>

\* flushTasks returned: f is what its loop did
Flushed(throwing, f) ==
    /\ Becomes([f.n EXCEPT !.scheduled = @ - 1, !.notified = [m \in Instances |-> {}]])
    /\ listeners' = f.n.listeners
    /\ flushed' = [notified |-> notified, runs |-> f.runs]
    /\ last' = Observed("flushTasks", 1, throwing, FALSE)
    /\ turn' = turn + 1
    /\ UNCHANGED <<heap, root, pc, iter, calls>>

\* the host runs a flushTasks it was handed: the turn ends
FlushTasks ==
    /\ scheduled > 0
    /\ Flushed(Throwing, FlushLoop(Notifier, Throwing, <<>>))

NextNotify ==
    \/ NotifyListenersCall
    \/ SetWatchedCall
    \/ CopyIntoCall
    \/ AddListener
    \/ RemoveListener
    \/ FlushTasks

SpecNotify == InitNotify /\ [][NextNotify]_vars

(***************************************************************************)
(* Callbacks that act on their instance during the flush, and an instance  *)
(* whose handleError throws.  The listeners of both instances are two      *)
(* listeners without names: the first removes itself, or the second        *)
(* notifies, or the first throws; the second instance may have a           *)
(* handleError of its own (handleError is protected, to be overridden)     *)
(* that throws the exception it is handed.                                 *)
(***************************************************************************)
ReentrantRegistrations ==
    {<<Listener("r", NoProps), Listener("g", NoProps)>>,
     <<Listener("g", NoProps), Listener("n", NoProps)>>,
     <<Listener("f", NoProps), Listener("g", NoProps)>>}

\* model.handleError = e => { throw e }
Rethrowing(o) == [o EXCEPT !.props = ("handleError" :> Function("rethrow")) @@ @]

InitReentrant ==
    /\ heap \in {<<NewInstance("Variable"), NewInstance("Variable")>>,
                 <<NewInstance("Variable"), Rethrowing(NewInstance("Variable"))>>}
    /\ root = Ref(1)
    /\ pc = "ready"
    /\ last = NoCall
    /\ iter = 0
    /\ version = Versions
    /\ \E ls \in ReentrantRegistrations : listeners = [m \in Instances |-> ls]
    /\ dirtyProps = [m \in Instances |-> {}]
    /\ taskQueue = <<>>
    /\ scheduled = 0
    /\ notified = [m \in Instances |-> {}]
    /\ calls = 0
    /\ flushed = NotFlushed
    /\ turn = 0

NextReentrant == NotifyListenersCall \/ FlushTasks

SpecReentrant == InitReentrant /\ [][NextReentrant]_vars

(***************************************************************************)
(* The registry (Persistence.ts, and the decorators prop and key and the   *)
(* function setupSerialization of index.ts).  The Persistence of a type is *)
(* an object held in the property __persistence of the prototype (when a   *)
(* decorator created it) or of the constructor (when setupSerialization    *)
(* did); getPersistence reads the property as JavaScript does, through the *)
(* prototype chain.  The heap holds class Base {} and class Derived        *)
(* extends Base {}: each constructor and each prototype, with the link to  *)
(* its own prototype in __proto__.  A Persistence object holds fields as   *)
(* the sequence of the entries of the Map, in insertion order, and keys as *)
(* the sequence of the elements of the array.                              *)
(***************************************************************************)
\* most calls of a behaviour of the registry
MaxRegistrations == 3

PersistenceKey == "__persistence"

\* a constructor function and the prototype object of a class
Class(prototype, super) ==
    HeapObject("Function", ("prototype" :> prototype) @@ ("__proto__" :> super), <<>>)
Prototype(constructor, super) ==
    HeapObject("Object", ("constructor" :> constructor) @@ ("__proto__" :> super), <<>>)

Base == Ref(1)
BasePrototype == Ref(2)
Derived == Ref(3)
DerivedPrototype == Ref(4)
Classes ==
    <<Class(BasePrototype, Null), Prototype(Base, Null),
      Class(DerivedPrototype, Base), Prototype(Derived, BasePrototype)>>

\* obj[name]: the own property, or that of the nearest prototype that has
\* one (Object.prototype and Function.prototype, where the chains end, have
\* no __persistence and are left out)
RECURSIVE Lookup(_, _, _)
Lookup(h, obj, name) ==
    IF obj.k # "object" THEN Undefined
    ELSE IF name \in DOMAIN h[obj.v].props THEN h[obj.v].props[name]
    ELSE Lookup(h, GetProp(h, obj, "__proto__"), name)

\* new Persistence()
NewPersistence ==
    HeapObject("Persistence",
               ("serialize" :> Null) @@ ("deserialize" :> Null) @@ ("deserializeInto" :> Null)
                   @@ ("fields" :> <<>>) @@ ("keys" :> <<>>),
               <<>>)

\* if (!value && obj.constructor) value = obj.constructor[key]
ViaConstructor(h, obj, value) ==
    IF ~Truthy(value) /\ Truthy(Lookup(h, obj, "constructor"))
    THEN Lookup(h, Lookup(h, obj, "constructor"), PersistenceKey)
    ELSE value

\* if (!value && obj.prototype) value = obj.prototype[key]
ViaPrototype(h, obj, value) ==
    ViaConstructor(h, obj,
        IF ~Truthy(value) /\ Truthy(Lookup(h, obj, "prototype"))
        THEN Lookup(h, Lookup(h, obj, "prototype"), PersistenceKey)
        ELSE value)

\* if (create && !value) { value = new Persistence(); obj[key] = value }
Got(h, obj, create, value) ==
    IF create /\ ~Truthy(value)
    THEN Allocated(Append(SetProp(h, obj.v, PersistenceKey, Ref(Len(h) + 1)), NewPersistence),
                   Ref(Len(h) + 1))
    ELSE Allocated(h, value)

\* getPersistence(obj, create): the heap it leaves and the value it returns
GetPersistence(h, obj, create) ==
    IF ~Truthy(obj) THEN Allocated(h, Null)
    ELSE Got(h, obj, create, ViaPrototype(h, obj, Lookup(h, obj, PersistenceKey)))

FalsyValue == "Cannot serialize null/falsy value"
DuplicateField == "Duplicate field"
ModelType == "setupPersistence was called for a model type"
HasFields == "The provided type has fields defined"

\* getPersistence returned g
Required(g) ==
    IF ~Truthy(g.val) THEN R(g.heap, PersistenceRequired, FALSE, Undefined)
    ELSE R(g.heap, NoErr, FALSE, g.val)

\* requirePersistence(value, create)
RequirePersistence(h, value, create) ==
    IF ~Truthy(value) THEN R(h, FalsyValue, FALSE, Undefined)
    ELSE Required(GetPersistence(h, value, create))

\* this.serialize || this.deserialize || this.deserializeInto
HasConverter(p) ==
    Truthy(p.props["serialize"]) \/ Truthy(p.props["deserialize"])
        \/ Truthy(p.props["deserializeInto"])

\* this.fields.has(name)
FieldsHas(p, name) == \E i \in DOMAIN p.props["fields"] : p.props["fields"][i].name = name

\* a mutant of Add: a field registered twice replaces the first one
AddOverwrite(h, p, name, field) ==
    IF HasConverter(h[p.v]) THEN R(h, ModelType, FALSE, Undefined)
    ELSE IF FieldsHas(h[p.v], name)
    THEN R(SetProp(h, p.v, "fields",
                   [i \in DOMAIN h[p.v].props["fields"] |->
                       IF h[p.v].props["fields"][i].name = name THEN field
                       ELSE h[p.v].props["fields"][i]]),
           NoErr, FALSE, Undefined)
    ELSE R(SetProp(h, p.v, "fields", Append(h[p.v].props["fields"], field)),
           NoErr, FALSE, Undefined)

\* a mutant of Add: a field is added to a type that has a converter
AddUnguarded(h, p, name, field) ==
    IF FieldsHas(h[p.v], name) THEN R(h, DuplicateField, FALSE, Undefined)
    ELSE R(SetProp(h, p.v, "fields", Append(h[p.v].props["fields"], field)),
           NoErr, FALSE, Undefined)

\* Persistence.add(name, field) on the Persistence p
Add(h, p, name, field) ==
    IF HasConverter(h[p.v]) THEN R(h, ModelType, FALSE, Undefined)
    ELSE IF FieldsHas(h[p.v], name) THEN R(h, DuplicateField, FALSE, Undefined)
    ELSE R(SetProp(h, p.v, "fields", Append(h[p.v].props["fields"], field)),
           NoErr, FALSE, Undefined)

\* no key option
NoKey == ""

\* requirePersistence(target, true) ended with g: .add(props?.key || propertyName, field)
PropAdd(g, name, propertyName) ==
    IF g.err # NoErr THEN g
    ELSE Add(g.heap, g.val, name, Field(name, propertyName, NoCtor, FALSE, FALSE))

\* @prop({ key }) on the attribute propertyName of the class of target
Prop(h, target, key, propertyName) ==
    PropAdd(RequirePersistence(h, target, TRUE),
            IF key = NoKey THEN propertyName ELSE key, propertyName)

\* requirePersistence(target, true) ended with g: persistence.keys.push(propertyKey)
KeyPush(g, propertyKey) ==
    IF g.err # NoErr THEN g
    ELSE R(SetProp(g.heap, g.val.v, "keys", Append(g.heap[g.val.v].props["keys"], propertyKey)),
           NoErr, FALSE, Undefined)

\* @key on the attribute propertyKey of the class of target
Key(h, target, propertyKey) == KeyPush(RequirePersistence(h, target, TRUE), propertyKey)

\* options.deserializeInto ?? null
OrNull(x) == IF IsNullish(x) THEN Null ELSE x

\* requirePersistence(ctor, true) ended with g: the check and the assignments
SetUp(g, options) ==
    IF g.err # NoErr THEN g
    ELSE IF Len(g.heap[g.val.v].props["fields"]) > 0 THEN R(g.heap, HasFields, FALSE, Undefined)
    ELSE R(SetProp(SetProp(SetProp(g.heap, g.val.v, "serialize", options.serialize),
                           g.val.v, "deserialize", options.deserialize),
                   g.val.v, "deserializeInto", OrNull(options.deserializeInto)),
           NoErr, FALSE, Undefined)

\* setupSerialization(ctor, options)
SetupSerialization(h, ctor, options) == SetUp(RequirePersistence(h, ctor, TRUE), options)

\* the decorated members, the key options and the converters of the calls
Targets == {BasePrototype, DerivedPrototype}
Constructors == {Base, Derived}
PropertyNames == {"id", "name"}
KeyOptions == {NoKey, "id"}
Options ==
    {[serialize |-> Function("s"), deserialize |-> Function("d"), deserializeInto |-> i] :
        i \in {Undefined, Function("i")}}

\* the classes are defined and nothing is registered
InitRegistry ==
    /\ heap = Classes
    /\ root = Undefined
    /\ pc = "ready"
    /\ last = NoCall
    /\ iter = 0
    /\ Unfollowed

\* a registry call with arguments d on the object obj ended with r (a call
\* that throws leaves what it did before it threw)
Registering(op, obj, d, r) ==
    /\ calls < MaxRegistrations
    /\ heap' = r.heap
    /\ last' = Call(op, d, obj, heap, r, Undefined)
    /\ calls' = calls + 1
    /\ UNCHANGED <<root, pc, iter, version, listeners, dirtyProps, taskQueue, scheduled,
                   notified, flushed, turn>>

PropCall ==
    \E target \in Targets, key \in KeyOptions, propertyName \in PropertyNames :
        Registering("prop", target, [key |-> key, propertyName |-> propertyName],
                    Prop(heap, target, key, propertyName))

KeyCall ==
    \E target \in Targets, propertyKey \in PropertyNames :
        Registering("key", target, [propertyKey |-> propertyKey], Key(heap, target, propertyKey))

SetupSerializationCall ==
    \E ctor \in Constructors, options \in Options :
        Registering("setupSerialization", ctor, options, SetupSerialization(heap, ctor, options))

NextRegistry == PropCall \/ KeyCall \/ SetupSerializationCall

SpecRegistry == InitRegistry /\ [][NextRegistry]_vars

(***************************************************************************)
(* Vocabulary of the properties.                                           *)
(***************************************************************************)
\* the elements of the list a field of x holds in heap h (none if no list)
ItemsOf(h, x, name) ==
    LET l == GetProp(h, x, name) IN IF IsArray(h, l) THEN h[l.v].items ELSE <<>>

Range(s) == {s[n] : n \in DOMAIN s}

\* a call of copyInto that returned
Returned(op) == last.op = op /\ last.err = NoErr

\* the last call merged a source list into Team.members
KeyedCall ==
    /\ Returned("copyInto")
    /\ RootType = "Team"
    /\ IsArray(last.pre, GetProp(last.pre, last.props, "members"))

\* the destination list before the call, the source list, the list after it
Dst == ItemsOf(last.pre, root, "members")
Src == ItemsOf(last.pre, last.props, "members")
Post == ItemsOf(heap, root, "members")

\* the identity key of a Player object or of a source entry
KeyOf(h, x) == GetProp(h, x, "id")

Distinct(h, s) ==
    \A m, n \in DOMAIN s : m # n => KeyOf(h, s[m]) # KeyOf(h, s[n])

\* the destination held objects only, with pairwise distinct keys, and the
\* source entries have pairwise distinct keys
DistinctKeys ==
    /\ KeyedCall
    /\ IsArray(last.pre, GetProp(last.pre, root, "members"))
    /\ \A n \in DOMAIN Dst : Dst[n].k = "object"
    /\ Distinct(last.pre, Dst)
    /\ Distinct(last.pre, Src)

\* the original objects whose key is the key of source entry i
Matching(i) == {n \in DOMAIN Dst : KeyOf(last.pre, Dst[n]) = KeyOf(last.pre, Src[i])}

\* the source entries no original object matches
Unmatched == {i \in DOMAIN Src : Matching(i) = {}}

\* an object the call constructed
IsNew(x) == x.k = "object" /\ x.v > Len(last.pre)

\* C1: with distinct keys on both sides, every source index whose key is the
\* key of an original object ends with that very object, the call
\* constructs one instance per unmatched entry and none else, and it
\* reports changed when the order of the objects differs from the original.
C1_ReorderKeepsIdentity ==
    DistinctKeys =>
        /\ \A i \in DOMAIN Src : \A n \in Matching(i) :
               i \in DOMAIN Post /\ Post[i] = Dst[n]
        /\ Len(heap) - Len(last.pre) = Cardinality(Unmatched)
        /\ Post # Dst => last.changed

\* a reordering: two original objects ended at each other's position
C1_Witness ==
    /\ DistinctKeys
    /\ Len(Dst) >= 2 /\ Len(Post) >= 2
    /\ Post[1] = Dst[2] /\ Post[2] = Dst[1]
    /\ last.changed

\* C2: after the merge the destination has exactly len(src) entries, none
\* null, and the key of dest[i] is the key of src[i].
C2_LengthAndKeys ==
    KeyedCall =>
        /\ Len(Post) = Len(Src)
        /\ \A i \in DOMAIN Post :
               /\ Post[i].k = "object"
               /\ KeyOf(heap, Post[i]) = KeyOf(last.pre, Src[i])

\* a destination with a null entry, longer than a non-empty source
C2_Witness ==
    /\ KeyedCall
    /\ IsArray(last.pre, GetProp(last.pre, root, "members"))
    /\ Null \in Range(Dst)
    /\ Len(Dst) > Len(Src) /\ Len(Src) > 0

\* C3: with distinct keys, an original object stays in the list iff its key
\* occurs in the source, an unmatched source entry ends as a new instance
\* with the entry's field values, and adding or removing reports changed.
C3_AddRemove ==
    DistinctKeys =>
        /\ \A n \in DOMAIN Dst :
               Dst[n] \in Range(Post) <=> \E i \in DOMAIN Src : n \in Matching(i)
        /\ \A i \in Unmatched :
               /\ IsNew(Post[i])
               /\ heap[Post[i].v].type = "Player"
               /\ \A f \in {"id", "name"} :
                      GetProp(heap, Post[i], f) = GetProp(last.pre, Src[i], f)
        /\ (Unmatched # {} \/ \E n \in DOMAIN Dst : Dst[n] \notin Range(Post)) => last.changed

\* one object added and one removed in the same call
C3_Witness ==
    /\ DistinctKeys
    /\ Unmatched # {}
    /\ \E n \in DOMAIN Dst : Dst[n] \notin Range(Post)
    /\ last.changed

\* the source has the keys of the current list in the same order and the
\* field values of its objects
SameAsCurrent ==
    /\ KeyedCall
    /\ IsArray(last.pre, GetProp(last.pre, root, "members"))
    /\ Len(Src) = Len(Dst)
    /\ \A n \in DOMAIN Dst :
           /\ Dst[n].k = "object"
           /\ \A f \in {"id", "name"} :
                  GetProp(last.pre, Src[n], f) = GetProp(last.pre, Dst[n], f)

\* C4: merging a source equal to the current keyed list returns false and
\* leaves every object at its position, the length and the objects as
\* they were.
C4_UnchangedKeyedList ==
    SameAsCurrent =>
        /\ ~last.changed
        /\ Post = Dst
        /\ heap = last.pre

C4_Witness == SameAsCurrent /\ Len(Dst) >= 2 /\ ~last.changed

\* an iteration of the for loop of mergeArray has just ended
IterationDone == pc = "loop" /\ iter >= 1 /\ last.err = NoErr

\* the entries of the destination, as the iteration found it, at the
\* position of the iteration or after it, whose key is the key of the
\* source entry of the iteration
Candidates ==
    {n \in DOMAIN Dst :
        /\ n >= iter
        /\ Dst[n].k = "object"
        /\ KeyOf(last.pre, Dst[n]) = KeyOf(last.pre, Src[iter])}

Lowest(S) == CHOOSE n \in S : \A m \in S : n <= m

\* C5: the iteration for source index i places at dest[i] the lowest-index
\* entry at position >= i of the destination whose key matches src[i]; an
\* entry with no such match, as a later duplicate is, gets a new instance;
\* and no object is ever at two positions of the destination.
C5_FirstMatchWins ==
    /\ IterationDone =>
          IF Candidates # {} THEN Post[iter] = Dst[Lowest(Candidates)]
          ELSE IsNew(Post[iter]) /\ heap[Post[iter].v].type = "Player"
    /\ \A m, n \in DOMAIN Post : (m # n /\ Post[m].k = "object") => Post[m] # Post[n]

\* the second of two source entries with one key got a new instance, the
\* first an object the destination had
C5_Witness ==
    /\ IterationDone
    /\ iter = 2
    /\ KeyOf(last.pre, Src[1]) = KeyOf(last.pre, Src[2])
    /\ Candidates = {}
    /\ IsNew(Post[2])
    /\ Post[1].k = "object" /\ Post[1].v < root.v

\* the fields of type p
FieldsOf(p) == Range(Persistence[p].fields)

\* the plain-data object d gives some copy field a value, or gives a list
\* to a field without element type, at any depth
RECURSIVE Volatile(_, _)
Volatile(p, d) ==
    d.k = "map" /\
    \E f \in FieldsOf(p) :
        /\ f.name \in DOMAIN d.v
        /\ LET x == d.v[f.name] IN
           \/ f.copy
           \/ ~HasPersistence(f.ctor) /\ x.k = "list"
           \/ HasPersistence(f.ctor) /\ x.k = "map" /\ Volatile(f.ctor, x)
           \/ HasPersistence(f.ctor) /\ x.k = "list"
                /\ \E n \in DOMAIN x.v : Volatile(f.ctor, x.v[n])

\* C6 as stated: the second merge of the same plain-data object returns
\* changed=false, for every field kind.
C6_Idempotent == Returned("again") => ~last.changed

\* C6 amended: the second merge of the same plain-data object returns
\* changed=true exactly when the object gives a value to a copy field or a
\* list to a field without element type, and changed=false otherwise.
C6_IdempotentButCopy == Returned("again") => (last.changed <=> Volatile(RootType, last.d))

\* second merges of a keyed list, of a nested object and of a copy field
C6_Witness ==
    /\ Returned("again")
    /\ ~last.changed
    /\ RootType = "Team"
    /\ Len(Post) >= 2

\* C7: a field whose name is not a key of the incoming map is left as it
\* was, and merging {} returns false and modifies nothing.
C7_OmissionPreserves ==
    Returned("copyInto") =>
        /\ \A f \in FieldsOf(RootType) :
               f.name \notin DOMAIN last.d.v =>
                   /\ GetProp(heap, root, f.prop) = GetProp(last.pre, root, f.prop)
                   /\ Deep(heap, GetProp(heap, root, f.prop))
                        = Deep(last.pre, GetProp(last.pre, root, f.prop))
        /\ last.d = EmptyMap => ~last.changed /\ heap = last.pre

\* a call that changed one field and left an omitted, set field alone
C7_Witness ==
    /\ Returned("copyInto")
    /\ last.changed
    /\ \E f \in FieldsOf(RootType) :
           f.name \notin DOMAIN last.d.v /\ GetProp(heap, root, f.prop) # Undefined

\* the keys of d that name a field of the root which is not a copy field
MergedFields == {f \in FieldsOf(RootType) : f.name \in DOMAIN last.d.v /\ ~f.copy}

\* the values the model passes to Field.deserialize as current
Currents == {Undefined, Null, Num(1), Str("a"), root}

\* C8: a key given as null or undefined sets the field to exactly that
\* value; the call reports changed iff some such value is not identical
\* to the current one; Field.deserialize(v, current) is [v !== current, v]
\* for v null or undefined, whatever the nested type.
C8_ExplicitClear ==
    /\ Returned("copyInto") =>
         /\ \A f \in MergedFields :
                IsNullish(last.d.v[f.name]) => GetProp(heap, root, f.prop) = last.d.v[f.name]
         /\ (MergedFields # {} /\ \A f \in FieldsOf(RootType) :
                f.name \in DOMAIN last.d.v => ~f.copy /\ IsNullish(last.d.v[f.name]))
              => (last.changed <=>
                    \E f \in MergedFields : last.d.v[f.name] # GetProp(last.pre, root, f.prop))
    /\ \A t \in Types : \A f \in FieldsOf(t) : \A v \in {Undefined, Null} : \A c \in Currents :
           FieldDeserialize(heap, f, v, c) = R(heap, NoErr, v # c, v)

\* a nested object cleared to null, reported as a change
C8_Witness ==
    /\ Returned("copyInto")
    /\ RootType = "Line"
    /\ "start" \in DOMAIN last.d.v /\ last.d.v["start"] = Null
    /\ GetProp(last.pre, root, "start").k = "object"
    /\ GetProp(heap, root, "start") = Null
    /\ last.changed

\* structural equality of instance graphs: same constructors, same defined
\* properties, same elements
RECURSIVE Structure(_, _)
Structure(h, x) ==
    IF x.k # "object" THEN x
    ELSE LET o == h[x.v] IN
         [k |-> "object",
          v |-> [type |-> o.type,
                 props |-> [n \in {m \in DOMAIN o.props : o.props[m] # Undefined} |->
                               Structure(h, o.props[n])],
                 items |-> [n \in DOMAIN o.items |-> Structure(h, o.items[n])]]]

\* C9 as stated: for a type without transient fields, deserializing the
\* output of serialize(x) into a new instance and merging {} into it
\* yields an instance structurally equal to x.
C9_RoundTrip ==
    (pc = "copied" /\ \A f \in FieldsOf(RootType) : ~f.transient) =>
        /\ last.err = NoErr
        /\ Structure(heap, last.out) = Structure(last.pre, root)

\* C10 as stated: an absent nested-object field that receives a map holds,
\* after the call, a newly constructed instance of the nested type with
\* the incoming fields merged into it, also for the empty map.
C10_NestedPopulated ==
    (Returned("copyInto") /\ RootType = "Line") =>
        \A name \in {"start", "end"} :
            (/\ name \in DOMAIN last.d.v
             /\ last.d.v[name].k = "map"
             /\ IsNullish(GetProp(last.pre, root, name)))
            => LET x == GetProp(heap, root, name) IN
               /\ IsNew(x)
               /\ heap[x.v].type = "Point"
               /\ \A g \in DOMAIN last.d.v[name].v :
                      GetProp(heap, x, g) = last.d.v[name].v[g]

\* the fields of the Line that the last call gave a map while they held an
\* instance
MergedInPlace ==
    {name \in {"start", "end"} :
        /\ name \in DOMAIN last.d.v
        /\ last.d.v[name].k = "map"
        /\ GetProp(last.pre, root, name).k = "object"}

\* the nested merge into the instance of field name changed one of its fields
NestedChanged(name) ==
    \E g \in DOMAIN last.d.v[name].v :
        last.d.v[name].v[g] # GetProp(last.pre, GetProp(last.pre, root, name), g)

\* C11: a nested-object field that holds an instance and receives a map
\* still references that instance after the call, the instance carries the
\* incoming values, and, when every key of the incoming object is such a
\* field, the call reports changed iff some nested merge changed a field.
C11_NestedInPlace ==
    (Returned("copyInto") /\ RootType = "Line") =>
        /\ \A name \in MergedInPlace :
               /\ GetProp(heap, root, name) = GetProp(last.pre, root, name)
               /\ \A g \in DOMAIN last.d.v[name].v :
                      GetProp(heap, GetProp(heap, root, name), g) = last.d.v[name].v[g]
        /\ (MergedInPlace # {} /\ MergedInPlace = DOMAIN last.d.v)
             => (last.changed <=> \E name \in MergedInPlace : NestedChanged(name))

\* an existing start point whose x was changed in place
C11_Witness ==
    /\ Returned("copyInto") /\ RootType = "Line"
    /\ "start" \in MergedInPlace
    /\ NestedChanged("start")
    /\ last.changed
    /\ GetProp(heap, root, "start") = GetProp(last.pre, root, "start")

\* the last call merged a list into the list PointList.values held
UnkeyedCall ==
    /\ Returned("copyInto")
    /\ RootType = "PointList"
    /\ "values" \in DOMAIN last.d.v
    /\ last.d.v["values"].k = "list"
    /\ IsArray(last.pre, GetProp(last.pre, root, "values"))

\* the list of the field before the call, the incoming list, the list after
Was == ItemsOf(last.pre, root, "values")
Given == last.d.v["values"].v
Now == ItemsOf(heap, root, "values")

\* C12 as stated: after the merge of an incoming list into an unkeyed list
\* of objects the field holds a list of the incoming length, whose element
\* i is the current element i, merged in place, where there was one, also
\* when no retained element changed value.
C12_UnkeyedLength ==
    UnkeyedCall =>
        /\ IsArray(heap, GetProp(heap, root, "values"))
        /\ Len(Now) = Len(Given)
        /\ \A n \in DOMAIN Now :
               /\ (n \in DOMAIN Was /\ Was[n].k = "object") => Now[n] = Was[n]
               /\ \A g \in DOMAIN Given[n].v : GetProp(heap, Now[n], g) = Given[n].v[g]

\* the last call gave the map field data a map
MapCall ==
    /\ Returned("copyInto")
    /\ RootType = "VariableSet"
    /\ "data" \in DOMAIN last.d.v
    /\ last.d.v["data"].k = "map"

\* the entries of the Map the field data of x holds in heap h
EntriesOf(h, x) ==
    IF IsMap(h, GetProp(h, x, "data")) THEN h[GetProp(h, x, "data").v].props ELSE <<>>

\* the entries before the call, the incoming entries, the entries after
Before == EntriesOf(last.pre, root)
Incoming == last.d.v["data"].v
After == EntriesOf(heap, root)

\* the instance x carries the values of the plain-data entry e
Carries(x, e) == \A g \in DOMAIN e.v : GetProp(heap, x, g) = e.v[g]

LeafFields == {f \in MergedFields : f.ctor = NoCtor}

\* the current value of field f, its incoming value, its value after the call
CurrentOf(f) == GetProp(last.pre, root, f.prop)
IncomingOf(f) == GetProp(last.pre, last.props, f.name)
ResultOf(f) == GetProp(heap, root, f.prop)

\* the incoming object names leaf fields only
LeafCall ==
    /\ Returned("copyInto")
    /\ LeafFields # {}
    /\ \A f \in FieldsOf(RootType) : f.name \in DOMAIN last.d.v => f \in LeafFields

\* deep equality of the current and the incoming value of field f
DeepEqual(f) == IsEqual(last.pre, CurrentOf(f), IncomingOf(f))

ListFields == {f \in LeafFields : IsArray(last.pre, IncomingOf(f))}

\* C16: a list field without element type that is given a list holds that
\* very list after the call, the list is as it was, nothing is constructed,
\* and the call reports changed.
C16_ScalarListByReference ==
    (Returned("copyInto") /\ ListFields # {}) =>
        /\ \A f \in ListFields :
               /\ ResultOf(f) = IncomingOf(f)
               /\ heap[ResultOf(f).v] = last.pre[IncomingOf(f).v]
        /\ Len(heap) = Len(last.pre)
        /\ last.changed

\* the field held a list with the same numbers as the incoming list
C16_Witness ==
    /\ Returned("copyInto") /\ RootType = "NumberList"
    /\ ListFields # {}
    /\ IsArray(last.pre, GetProp(last.pre, root, "values"))
    /\ GetProp(last.pre, root, "values") # GetProp(heap, root, "values")
    /\ ItemsOf(last.pre, root, "values") = ItemsOf(heap, root, "values")
    /\ Len(ItemsOf(heap, root, "values")) >= 1
    /\ last.changed

\* the copy fields the incoming object names
CopyFields == {f \in FieldsOf(RootType) : f.name \in DOMAIN last.d.v /\ f.copy}

\* C17: a copy field whose key the incoming object has holds the incoming
\* value itself after the call, nothing is constructed or merged, and the
\* call returns changed, also when the value equals the current one.
C17_CopyVerbatim ==
    (Returned("copyInto") /\ CopyFields # {}) =>
        /\ \A f \in CopyFields : ResultOf(f) = IncomingOf(f)
        /\ \A n \in DOMAIN last.pre : heap[n] = last.pre[n] \/ n = root.v
        /\ CopyFields = {f \in FieldsOf(RootType) : f.name \in DOMAIN last.d.v}
             => Len(heap) = Len(last.pre)
        /\ last.changed

\* a copy field given the value it holds
C17_Witness ==
    /\ Returned("copyInto") /\ RootType = "Doc"
    /\ DOMAIN last.d.v = {"raw"}
    /\ GetProp(last.pre, root, "raw") = Num(1)
    /\ GetProp(heap, root, "raw") = Num(1)
    /\ last.changed

(***************************************************************************)
(* The notifier: what a call did to the instance it was made on.           *)
(***************************************************************************)
\* the instance the last call was made on
This == last.out.v

\* the tasks of instance m in a task queue
TasksOf(q, m) == {i \in 1..Len(q) : q[i] = m}

\* the tasks the last call enqueued for its instance
Enqueued == Cardinality(TasksOf(taskQueue, This)) - Cardinality(TasksOf(last.taskQueue, This))

\* the names the last call added to the dirty set of its instance
Dirtied == dirtyProps[This] \ last.dirtyProps[This]

\* the fields of the instance whose value the last call changed
ChangedFields ==
    {f.name : f \in {g \in Range(Persistence[heap[This].type].fields) :
                        GetProp(heap, last.out, g.prop) # GetProp(last.pre, last.out, g.prop)}}

\* C18: a copyInto on a Model instance that changes a field triggers one
\* notification on the instance, naming the fields that changed and not the
\* wildcard; a copyInto that returns false triggers none.  (A notification
\* pending before the call is left aside in the count.)
C18_MergeNotification ==
    last.op = "copyInto" =>
        IF last.changed
        THEN /\ Dirtied = ChangedFields \ last.dirtyProps[This]
             /\ last.dirtyProps[This] = {} => Enqueued = 1
        ELSE /\ Dirtied = {}
             /\ Enqueued = 0
             /\ version[This] = last.version[This]

\* the runs of the tasks of instance m in the last flushTasks
RunsOf(m) == {i \in 1..Len(flushed.runs) : flushed.runs[i].this = m}

\* the listeners of instance m a dirty set is relevant to, in order
Relevant(m, dirty) == SelectSeq(listeners[m], LAMBDA l : IsRelevant(l, dirty))

\* C19: the notifyListeners calls made on an instance in one turn give one
\* run of its flush; the run finds every name the calls passed in the dirty
\* set (the wildcard for a call without names) and invokes each relevant
\* listener once.
C19_Coalescing ==
    last.op = "flushTasks" =>
        \A m \in Instances :
            flushed.notified[m] # {} =>
                /\ Cardinality(RunsOf(m)) = 1
                /\ \A i \in RunsOf(m) :
                       /\ flushed.notified[m] \subseteq flushed.runs[i].dirtyProps
                       /\ flushed.runs[i].invoked = Relevant(m, flushed.notified[m])

\* the listeners of instance m invoked by some run of the last flushTasks
InvokedFor(m) == UNION {Range(flushed.runs[i].invoked) : i \in RunsOf(m)}

\* C20: notifyListeners() puts the wildcard in the dirty set and
\* notifyListeners(n1, ..., nk) every ni; the next flush invokes every
\* listener whose filter holds one of the names passed.
C20_DirtyNames ==
    /\ last.op = "notifyListeners" => Passed(last.props) \subseteq dirtyProps[This]
    /\ last.op = "flushTasks" =>
           \A m \in Instances :
               \A l \in Range(listeners[m]) :
                   l.props.k = "set" /\ HasOverlap(flushed.notified[m], l.props.v)
                       => l \in InvokedFor(m)

\* C21: a notifyListeners call on an instance whose dirty set is not empty
\* only adds to the dirty set: the version stays and no task is enqueued.
C21_PendingOnlyAugments ==
    last.op = "notifyListeners" /\ last.dirtyProps[This] # {} =>
        /\ last.dirtyProps[This] \subseteq dirtyProps[This]
        /\ version[This] = last.version[This]
        /\ Enqueued = 0

\* the run i of the last flushTasks
Run(i) == flushed.runs[i]

\* the listener l has a filter and the filter holds a name of the dirty set
Shares(l, dirty) == l.props.k = "set" /\ l.props.v \cap dirty # {}

\* C22: when the task of an instance runs, a registered listener is invoked,
\* with the version the instance has, if and only if it has no filter, or
\* the dirty set holds the wildcard, or its filter holds a name of the dirty
\* set.
C22_DeliveryRule ==
    last.op = "flushTasks" =>
        \A i \in DOMAIN flushed.runs :
            /\ Run(i).version = version[Run(i).this]
            /\ Range(Run(i).invoked) \subseteq Range(listeners[Run(i).this])
            /\ \A l \in Range(listeners[Run(i).this]) :
                   l \in Range(Run(i).invoked) <=>
                       \/ l.props.k = "null"
                       \/ Wildcard \in Run(i).dirtyProps
                       \/ Shares(l, Run(i).dirtyProps)

\* a run that invoked a listener for the wildcard and one for a name of its
\* filter, and one that left a listener with a filter out
C22_Witness ==
    /\ last.op = "flushTasks"
    /\ \E i \in DOMAIN flushed.runs :
           /\ Wildcard \in Run(i).dirtyProps
           /\ \E l \in Range(Run(i).invoked) :
                  l.props.k = "set" /\ ~Shares(l, Run(i).dirtyProps)
    /\ \E i \in DOMAIN flushed.runs :
           /\ Wildcard \notin Run(i).dirtyProps
           /\ \E l \in Range(Run(i).invoked) : Shares(l, Run(i).dirtyProps)
           /\ \E l \in Range(listeners[Run(i).this]) : l \notin Range(Run(i).invoked)

\* the callbacks of a sequence of listeners that throw, in order
Thrown(ls) == [i \in DOMAIN SelectSeq(ls, LAMBDA l : l.callback \in last.props) |->
                  SelectSeq(ls, LAMBDA l : l.callback \in last.props)[i].callback]

\* C23: when a callback throws during a flush, the exception is handed to
\* handleError, the relevant listeners after it are still invoked in the same
\* run, the dirty set is cleared at the end, and no exception leaves the
\* task.
C23_FailureIsolation ==
    last.op = "flushTasks" =>
        /\ taskQueue = <<>>
        /\ \A i \in DOMAIN flushed.runs :
               /\ Run(i).invoked = Relevant(Run(i).this, Run(i).dirtyProps)
               /\ Run(i).errors = Thrown(Run(i).invoked)
               /\ ~Run(i).thrown
               /\ dirtyProps[Run(i).this] = {}

\* a run whose first listener threw and that invoked a listener after it
C23_Witness ==
    /\ last.op = "flushTasks"
    /\ \E i \in DOMAIN flushed.runs :
           /\ Len(Run(i).invoked) >= 2
           /\ Run(i).invoked[1].callback \in last.props
           /\ Run(i).invoked[2].callback \notin last.props
           /\ Run(i).errors = <<Run(i).invoked[1].callback>>

\* the version after k increments of v, as the claim has them
RECURSIVE Incremented(_, _)
Incremented(v, k) ==
    IF k = 0 THEN v
    ELSE Incremented(IF v < VersionLimit THEN v + 1 ELSE 1, k - 1)

\* C24: after the task of an instance has run, the dirty set of the instance
\* is empty, and the next notifyListeners call on it, with names or without,
\* increments the version and enqueues a task.
C24_Rearming ==
    /\ last.op = "flushTasks" =>
           \A i \in DOMAIN flushed.runs : dirtyProps[Run(i).this] = {}
    /\ last.op = "notifyListeners" /\ RunsOf(This) # {} /\ last.dirtyProps[This] = {} =>
           /\ version[This] = Incremented(last.version[This], 1)
           /\ Enqueued = 1
           /\ dirtyProps[This] # {}

\* a notifyListeners call on an instance whose task has run
C24_Witness ==
    /\ last.op = "notifyListeners"
    /\ RunsOf(This) # {}
    /\ last.dirtyProps[This] = {}
    /\ Len(last.props) > 0
    /\ Enqueued = 1

\* C25: the version of an instance is in 1..100000; a notifyListeners call
\* that schedules a flush takes it from v to v + 1, from 100000 to 1, and
\* nothing else changes it.
C25_VersionCounter ==
    /\ \A m \in Instances : version[m] \in 1..VersionLimit
    /\ last.op \in {"notifyListeners", "set", "copyInto"} =>
           /\ version[This] = Incremented(last.version[This], Enqueued)
           /\ Enqueued > 0 => version[This] # last.version[This]
           /\ \A m \in Instances \ {This} : version[m] = last.version[m]
    /\ last.op \in {"addListener", "removeListener", "flushTasks"} =>
           version = last.version

\* a notifyListeners call that took the version from the limit to 1
C25_Witness ==
    /\ last.op = "notifyListeners"
    /\ last.version[This] = VersionLimit
    /\ version[This] = 1
    /\ Enqueued = 1

\* C26: the tasks enqueued in a turn, for one instance or several, run in
\* the order they were enqueued in.
C26_FlushOrder ==
    last.op = "flushTasks" =>
        [i \in DOMAIN flushed.runs |-> Run(i).this] = last.taskQueue

\* the fields of type t for which the plain-data object props, in heap h, has
\* a value that is an object but not a list, while the field is not stored
\* verbatim and its nested type has no persistence (or it declares none)
Unresolvable(h, t, props) ==
    {n \in DOMAIN Persistence[t].fields :
        /\ ~Persistence[t].fields[n].copy
        /\ ~HasPersistence(Persistence[t].fields[n].ctor)
        /\ HasOwnProperty(h, props, Persistence[t].fields[n].name)
        /\ TypeOf(GetProp(h, props, Persistence[t].fields[n].name)) = "object"
        /\ GetProp(h, props, Persistence[t].fields[n].name) # Null
        /\ ~IsArray(h, GetProp(h, props, Persistence[t].fields[n].name))}

\* C27: a copyInto call that meets a field whose incoming value is a map,
\* while the nested type of the field has no persistence or the field
\* declares no nested type, fails; it never completes normally.
C27_MissingMetadataFatal ==
    last.op = "copyInto" /\ Unresolvable(last.pre, RootType, last.props) # {} =>
        last.err # NoErr

\* the fields of the type of root that toSerializable(root) emits, as the
\* claim has them: not transient, and the getter returns a value
EmittedFields ==
    SelectSeq(Persistence[RootType].fields,
              LAMBDA f : ~f.transient /\ GetProp(last.pre, root, f.prop) # Undefined)

\* the object a toSerializable call returned
Result == heap[last.out.v]

\* v is the conversion of the list a: a new list of the same length, with
\* the scalars of a and a new plain object for each instance in a
ConvertedList(a, v) ==
    /\ IsArray(heap, v)
    /\ v.v > Len(last.pre)
    /\ Len(heap[v.v].items) = Len(last.pre[a.v].items)
    /\ \A i \in DOMAIN heap[v.v].items :
           IF last.pre[a.v].items[i].k = "object"
           THEN /\ heap[v.v].items[i].k = "object"
                /\ heap[v.v].items[i].v > Len(last.pre)
                /\ heap[heap[v.v].items[i].v].type = "Object"
           ELSE heap[v.v].items[i] = last.pre[a.v].items[i]

\* C28: toSerializable of a registered instance returns a new plain object
\* whose keys are the external names of the fields that are not transient
\* and whose getter returns a value other than undefined, in registration
\* order; a field holding null is emitted as null, and a list as a new list
\* converted element by element.
C28_SerializerKeySet ==
    last.op = "toSerializable" /\ last.err = NoErr =>
        /\ last.out.k = "object"
        /\ last.out.v > Len(last.pre)
        /\ Result.type = "Object"
        /\ Result.items = [i \in DOMAIN EmittedFields |-> EmittedFields[i].name]
        /\ DOMAIN Result.props = {EmittedFields[i].name : i \in DOMAIN EmittedFields}
        /\ \A i \in DOMAIN EmittedFields :
               /\ GetProp(last.pre, root, EmittedFields[i].prop) = Null =>
                      Result.props[EmittedFields[i].name] = Null
               /\ IsArray(last.pre, GetProp(last.pre, root, EmittedFields[i].prop)) =>
                      ConvertedList(GetProp(last.pre, root, EmittedFields[i].prop),
                                    Result.props[EmittedFields[i].name])

\* a session with a login, a token, a list of tags and a scratch attribute
\* was converted: login and tags are emitted, in this order
C28_Witness ==
    /\ last.op = "toSerializable"
    /\ last.err = NoErr
    /\ RootType = "Session"
    /\ GetProp(last.pre, root, "token") = Str("t")
    /\ GetProp(last.pre, root, "scratch") = Num(3)
    /\ Result.items = <<"login", "tags">>
    /\ Result.props["login"] = Null
    /\ IsArray(heap, Result.props["tags"])

\* the Persistence that getPersistence finds for the object of the last
\* registry call, in the heap the call started from
Resolved == GetPersistence(last.pre, last.props, FALSE).val

\* the external name a prop call registers its field under
ExternalName(d) == IF d.key = NoKey THEN d.propertyName ELSE d.key

\* C29: registering a field under an external name that the type already
\* has fails with the duplicate-field error and changes nothing: the field
\* registered first, the order of the fields and the keys are as before.
C29_DuplicateRegistration ==
    last.op = "prop" /\ Truthy(Resolved) /\ FieldsHas(last.pre[Resolved.v], ExternalName(last.d)) =>
        /\ last.err = DuplicateField
        /\ heap = last.pre

\* the attribute name was registered under the external name id of a type
\* that has the field id already
C29_Witness ==
    /\ last.op = "prop"
    /\ last.d = [key |-> "id", propertyName |-> "name"]
    /\ Truthy(Resolved)
    /\ FieldsHas(last.pre[Resolved.v], "id")
    /\ last.err = DuplicateField

\* the Persistence objects of the heap
Descriptors == {i \in DOMAIN heap : heap[i].type = "Persistence"}

\* C30: no Persistence has both fields and a converter; registering a field
\* with a Persistence that has a converter, or a converter with one that
\* has fields, fails and changes nothing.
C30_Exclusivity ==
    /\ \A i \in Descriptors : ~(Len(heap[i].props["fields"]) > 0 /\ HasConverter(heap[i]))
    /\ last.op = "prop" /\ Truthy(Resolved) /\ HasConverter(last.pre[Resolved.v]) =>
           /\ last.err = ModelType
           /\ heap = last.pre
    /\ last.op = "setupSerialization" /\ Truthy(Resolved)
            /\ Len(last.pre[Resolved.v].props["fields"]) > 0 =>
           /\ last.err = HasFields
           /\ heap = last.pre

\* a field was registered for a type that has a converter, after a
\* converter was refused to a type that has fields
C30_Witness ==
    /\ last.op = "prop"
    /\ Truthy(Resolved)
    /\ HasConverter(last.pre[Resolved.v])
    /\ last.err = ModelType
    /\ \E i \in Descriptors : Len(heap[i].props["fields"]) > 0

\* the attribute a is registered as a field of the Persistence p
IsFieldAttribute(p, a) == \E i \in DOMAIN p.props["fields"] : p.props["fields"][i].prop = a

\* C31: every identity key of a Persistence is the name of an entry of its
\* fields map, also when the key was declared on an attribute that is
\* registered under an overriding external name.
C31_KeysNameFields ==
    \A i \in Descriptors : \A k \in Range(heap[i].props["keys"]) :
        IsFieldAttribute(heap[i], k) => FieldsHas(heap[i], k)

\* the Persistence that getPersistence finds for the constructor ctor in heap h
DescriptorOf(h, ctor) == GetPersistence(h, ctor, FALSE).val

\* the fields and the keys of the Persistence p of heap h
Registration(h, p) == <<h[p.v].props["fields"], h[p.v].props["keys"]>>

\* C40: registering a field or a key for the class Derived leaves the
\* fields and the keys of the descriptor of its superclass Base as they
\* were.
C40_ScopedToType ==
    last.op \in {"prop", "key"} /\ last.props = DerivedPrototype
            /\ Truthy(DescriptorOf(last.pre, Base)) =>
        Registration(heap, DescriptorOf(last.pre, Base))
            = Registration(last.pre, DescriptorOf(last.pre, Base))

\* the last call was field.deserialize(props, current) for a field whose
\* constructor has a custom deserializer, a value to deserialize and no
\* usable in-place path
CustomPath ==
    /\ last.op = "deserialize"
    /\ HasDeserialize(last.d.ctor)
    /\ ~IsNullish(last.props)
    /\ ~(Truthy(root) /\ HasDeserializeInto(last.d.ctor))

\* C32: with a custom deserializer and no usable in-place path,
\* Field.deserialize returns the pair [true, deserialize(props)]: a new
\* instance of the constructor made from props, with changed = true.
C32_CustomDeserializerPair ==
    CustomPath =>
        /\ last.err = NoErr
        /\ last.out.k = "tuple"
        /\ last.out.v[1] = TRUE
        /\ last.out.v[2].k = "object"
        /\ last.out.v[2].v > Len(last.pre)
        /\ heap[last.out.v[2].v] = HeapObject(last.d.ctor, "value" :> last.props, <<>>)

\* the last call was field.deserialize(props, current) for a field whose
\* constructor has an in-place deserializer, with a current value
InPlacePath ==
    /\ last.op = "deserialize"
    /\ HasDeserializeInto(last.d.ctor)
    /\ ~IsNullish(last.props)
    /\ Truthy(root)

\* C33: with an in-place deserializer and a current value, Field.deserialize
\* returns [c, current], c being what the in-place deserializer returned
\* (here: whether the value of current differed from props); current is
\* the same object, updated in place, and the plain deserializer did not
\* run (no instance was made).
C33_InPlaceDeserializer ==
    InPlacePath =>
        /\ last.err = NoErr
        /\ last.out = Tuple(last.pre[root.v].props["value"] # last.props, root)
        /\ Len(heap) = Len(last.pre)
        /\ heap[root.v].props["value"] = last.props

\* an in-place deserialization that changed nothing
C33_Witness ==
    /\ InPlacePath
    /\ last.out = Tuple(FALSE, root)
    /\ last.props = Num(456)

\* C39: removeListener(cb) removes every registration of cb on the
\* instance and keeps the other listeners in their order, the listeners of
\* other instances as they are; and a flush, also one that was scheduled
\* before the removal, invokes only listeners that are registered.
C39_RemoveListener ==
    /\ last.op = "removeListener" =>
           /\ \A i \in DOMAIN listeners[This] : listeners[This][i].callback # last.props
           /\ listeners[This]
                  = SelectSeq(last.listeners[This], LAMBDA l : l.callback # last.props)
           /\ \A m \in Instances \ {This} : listeners[m] = last.listeners[m]
    /\ last.op = "flushTasks" =>
           \A i \in DOMAIN flushed.runs :
               Range(Run(i).invoked) \subseteq Range(listeners[Run(i).this])

\* a callback that was registered was removed while a task of the instance
\* was in the queue, and another listener stays
C39_Witness ==
    /\ last.op = "removeListener"
    /\ \E i \in DOMAIN last.listeners[This] : last.listeners[This][i].callback = last.props
    /\ \E i \in DOMAIN last.taskQueue : last.taskQueue[i] = This
    /\ Len(listeners[This]) > 0

\* the listener l is invoked after place p of run i of the last flush: later
\* in that run, in a later run of the same instance, or by a task of the
\* instance that is still in the queue
InvokedAfter(i, p, l) ==
    \/ \E q \in DOMAIN Run(i).invoked : q > p /\ Run(i).invoked[q] = l
    \/ \E j \in DOMAIN flushed.runs :
           j > i /\ Run(j).this = Run(i).this /\ l \in Range(Run(j).invoked)
    \/ \E q \in DOMAIN taskQueue : taskQueue[q] = Run(i).this

\* C34: after a notifyListeners call that a callback makes on its instance
\* while the task of the instance runs, every listener without names that
\* stays registered is invoked.
C34_NoLostNotification ==
    last.op = "flushTasks" =>
        \A i \in DOMAIN flushed.runs : \A k \in DOMAIN Run(i).reentered :
            \A l \in Range(Run(i).started) \cap Range(listeners[Run(i).this]) :
                l.props = NoProps => InvokedAfter(i, Run(i).reentered[k], l)

\* C36: every relevant listener that is registered when the task starts
\* and when it ends is invoked exactly once by the task, also when a
\* callback removes a listener (itself included) meanwhile.
C36_ListMutation ==
    last.op = "flushTasks" =>
        \A i \in DOMAIN flushed.runs :
            ~Run(i).thrown =>
                \A l \in Range(Run(i).started) \cap Range(Run(i).ended) :
                    IsRelevant(l, Run(i).dirtyProps) =>
                        Cardinality({q \in DOMAIN Run(i).invoked : Run(i).invoked[q] = l}) = 1

\* C37: between the turns of the host, a task queue that is not empty has
\* a flushTasks callback pending, whatever the callbacks and the error
\* hooks did.
C37_QueueLiveness == Len(taskQueue) > 0 => scheduled > 0

\* C35: when deserializeCopy returns false, the instance graph is the same
\* after the call as before it: every field holds the same value, a list
\* field that was absent or of another length included.
C35_ChangedFlagSound ==
    Returned("copyInto") /\ ~last.changed =>
        Structure(heap, root) = Structure(last.pre, root)

\* the elements of the list members before the call
MembersBefore ==
    IF IsArray(last.pre, GetProp(last.pre, root, "members"))
    THEN last.pre[GetProp(last.pre, root, "members").v].items
    ELSE <<>>

\* the player x had the key value s before the call
HadKey(x, s) == x.k = "object" /\ GetProp(last.pre, x, "id") = s

\* C38: for a source entry that is a bare key value, the object at the
\* entry's index after the merge has that key value; it is an object the
\* list held with that key value if there was one, with its other fields
\* as they were, and a new instance otherwise.
C38_ScalarKeys ==
    (Returned("copyInto") /\ IsArray(heap, Source)) =>
        \A i \in 0..(ArrayLength(heap, Source) - 1) :
            GetIndex(heap, Source, i).k = "number" =>
                /\ GetIndex(heap, Dest, i).k = "object"
                /\ GetProp(heap, GetIndex(heap, Dest, i), "id") = GetIndex(heap, Source, i)
                /\ (\E j \in DOMAIN MembersBefore :
                        HadKey(MembersBefore[j], GetIndex(heap, Source, i)))
                       => HadKey(GetIndex(heap, Dest, i), GetIndex(heap, Source, i))
                /\ ~IsNew(GetIndex(heap, Dest, i)) =>
                       GetProp(heap, GetIndex(heap, Dest, i), "name")
                           = GetProp(last.pre, GetIndex(heap, Dest, i), "name")

=============================================================================
